---- MODULE Spec2Model ----
(***************************************************************************)
(* GitBoss-AI/agent: the GitHub activity-aggregation pipeline.             *)
(*                                                                         *)
(*   SpecFetch  the retrying fetch clients, one HTTP attempt per step      *)
(*              (tools/get_contributor_activity.py _make_github_api_request*)
(*              and the inline retry loop of tools/list_repo_pr.py)        *)
(*   SpecPage   the offset paginators, one page request per step           *)
(*   SpecAgg    fetch_contributor_activity, one fetch-client call per step *)
(*   SpecWindow the actor and window tests of fetch_contributor_activity    *)
(*   SpecEntry  the token and date checks at the entry of the tools and    *)
(*              endpoint handlers, up to their first HTTP request          *)
(*   SpecBins   the date bins of /repo/team-activity and the counting of   *)
(*              events into them                                           *)
(*   SpecStats  percentage_change of /repo/stats                           *)
(*   SpecFlight the GitHub calls of the per-PR review fetches, a call      *)
(*              being sent and answered in separate steps                  *)
(*   SpecCursor the link-following commit loops of app.py                  *)
(*   SpecCache  the file cache of utils/cache.py                           *)
(*   SpecRange  the two periods /repo/stats compares                       *)
(*   SpecSocket the WebSocket handler: connections and broadcast           *)
(*   SpecSolution the step workflow of /generate-issue-solution            *)
(***************************************************************************)
EXTENDS Integers, Sequences, FiniteSets, TLC

VARIABLES fc, pg, ag, wf, ep, tl, st, fl, cp, cf, tr, ws, gs

vars == <<fc, pg, ag, wf, ep, tl, st, fl, cp, cf, tr, ws, gs>>

(***************************************************************************)
(* Program constants                                                       *)
(***************************************************************************)
MAX_RETRIES == 3
RETRY_DELAY == 5
RATE_LIMIT_BUFFER == 5

(***************************************************************************)
(* Bounds of the model                                                     *)
(***************************************************************************)
\* wall clock (epoch seconds, scaled) when a fetch-client call starts: 0..MaxNow
MaxNow == 2
\* X-RateLimit-Reset header values: 0..MaxReset
MaxReset == 3
\* longest time one HTTP attempt takes before it answers or fails: 0..MaxLatency
MaxLatency == 1
\* per_page, the page size every loop asks for (100 in the code, scaled down)
PerPage == 2
\* the source of a paginated list holds fewer than MaxPages * PerPage items
MaxPages == 4
\* item identifiers (sha, PR or issue number): 1..NumIds
NumIds == 2
\* the sources of one aggregation serve at most MaxItems items in all: the
\* items of the lists, and the commit details that carry stats or files
MaxItems == 4
\* additions and deletions of a commit: 0..MaxLines
MaxLines == 1
\* the dates of a window are the days 1..MaxDay
MaxDay == 3
\* events counted into the bins of one timeline
MaxEvents == 2
\* today is one of the days FirstToday..FirstToday + MaxShift
FirstToday == 100
MaxShift == 1
\* the counts of the current and of the previous period: 0..MaxCount
MaxCount == 12
\* involved PRs of one aggregation: 0..MaxPrs
MaxPrs == 3
\* the "next" links of the Link headers are the URLs 1..NumCursors
NumCursors == 2
\* requests of one cursor loop
MaxRequests == 4
\* the clock of the cache, in hours: 0..MaxHour
MaxHour == 13
\* values stored under a key of a cached dictionary: 0..MaxValue
MaxValue == 1
\* most keys of a cached dictionary
MaxKeys == 2
\* the current date of /repo/stats ranges over NumYears years from FirstYear on
FirstYear == 2024
NumYears == 2
\* midnights that pass while one /repo/stats request is served: 0..MaxNights
MaxNights == 1
\* WebSocket connections opened on one handler: 1..NumConns
NumConns == 2
\* subjects the tokens are issued for: 1..NumUsers
NumUsers == 2
\* client messages one connection reads: 0..MaxReads
MaxReads == 1
\* file paths of the repository of /generate-issue-solution: 1..NumPaths
NumPaths == 3

Max(a, b) == IF a >= b THEN a ELSE b

(***************************************************************************)
(* What one requests.get + raise_for_status can do.                        *)
(*   kind "ok"   a 2xx response                                            *)
(*   kind "http" raise_for_status raised HTTPError (a 4xx/5xx status)      *)
(*   kind "net"  requests.get raised ConnectionError/Timeout               *)
(* hasReset/reset: the X-RateLimit-Reset header of the error response.     *)
(***************************************************************************)
Outcome(k, s, h, r) == [kind |-> k, status |-> s, hasReset |-> h, reset |-> r]

OkOutcome == Outcome("ok", 200, FALSE, 0)

NetOutcome == Outcome("net", 0, FALSE, 0)

HttpOutcomes ==
    {Outcome("http", s, FALSE, 0) : s \in {403, 404, 500}}
        \cup {Outcome("http", 403, TRUE, r) : r \in 0..MaxReset}

Outcomes == {OkOutcome, NetOutcome} \cup HttpOutcomes

IsRequestException(o) == o.kind \in {"http", "net"}

(***************************************************************************)
(* The fetch clients.  fc.client names the code:                           *)
(*   "activity"  _make_github_api_request                                  *)
(*   "list_pr"   the retry loop inside list_repository_pull_requests       *)
(* fc.pc: "try" (at the while test, about to issue a request), "sleep" (in *)
(* time.sleep(fc.wait)), "returned", "raised", "idle" (no call running).   *)
(* fc.retries is the local counter, fc.requests counts requests.get calls, *)
(* fc.now is the wall clock, fc.stamp the clock read in the except clause, *)
(* fc.outs the outcomes of the attempts so far (the last one is the error  *)
(* that is raised), fc.slept the durations of the sleeps completed.        *)
(***************************************************************************)
Clients == {"activity", "list_pr"}

FcIdle ==
    [client |-> "activity", pc |-> "idle", retries |-> 0, requests |-> 0,
     now |-> 0, stamp |-> 0, wait |-> 0, outs |-> <<>>, slept |-> <<>>]

LastOutcome(f) == f.outs[Len(f.outs)]

FcStart(c, t) == [FcIdle EXCEPT !.client = c, !.pc = "try", !.now = t]

\* retries += 1 in the except clause, whatever the exception was
RetriesAfterRateLimitFree(retries, o) ==
    IF o.kind = "http" /\ o.status = 403 THEN retries ELSE retries + 1

RetriesAfter(retries, o) == retries + 1

\* wait_time of a 403 that carries X-RateLimit-Reset: max(0, reset - now) + 5
RateLimitWaitUnclamped(reset, current) == (reset - current) + RATE_LIMIT_BUFFER

RateLimitWait(reset, current) == Max(0, reset - current) + RATE_LIMIT_BUFFER

\* the linear backoff RETRY_DELAY * retries
BackoffWaitConstant(retries) == RETRY_DELAY

BackoffWait(retries) == RETRY_DELAY * retries

\* the sleep _make_github_api_request chooses after a failure that is not the last
ActivityWait(o, retries, current) ==
    IF o.kind = "http" /\ o.status = 403
    THEN IF o.hasReset
         THEN RateLimitWait(o.reset, current)
         ELSE RETRY_DELAY * retries * 2
    ELSE BackoffWait(retries)

\* the sleep of list_repository_pull_requests: a 403 only prints a message
ListPrWait(o, retries) == BackoffWait(retries)

\* One pass of the while body: the request, answered after d seconds with o.
FcAttempt(f, o, d) ==
    LET t == f.now + d
        sent == [f EXCEPT !.requests = @ + 1, !.now = t, !.outs = Append(@, o)]
    IN  IF ~IsRequestException(o)
        THEN [sent EXCEPT !.pc = "returned"]
        ELSE LET r == RetriesAfter(f.retries, o)
             IN  IF r >= MAX_RETRIES
                 THEN [sent EXCEPT !.retries = r, !.pc = "raised"]
                 ELSE [sent EXCEPT !.retries = r, !.pc = "sleep", !.stamp = t,
                                   !.wait = IF f.client = "activity"
                                            THEN ActivityWait(o, r, t)
                                            ELSE ListPrWait(o, r)]

\* time.sleep(wait) returns and the loop goes back to its test
FcWake(f) ==
    [f EXCEPT !.pc = "try", !.now = @ + f.wait, !.slept = Append(@, f.wait)]

FcRequest ==
    /\ fc.pc = "try"
    /\ fc.retries < MAX_RETRIES
    /\ \E o \in Outcomes, d \in 0..MaxLatency : fc' = FcAttempt(fc, o, d)
    /\ UNCHANGED <<pg, ag, wf, ep, tl, st, fl, cp, cf, tr, ws, gs>>

FcSleep ==
    /\ fc.pc = "sleep"
    /\ fc' = FcWake(fc)
    /\ UNCHANGED <<pg, ag, wf, ep, tl, st, fl, cp, cf, tr, ws, gs>>

(***************************************************************************)
(* A fetch-client call as its callers see it: the loop run to its end on   *)
(* the outcomes of its (at most MAX_RETRIES) attempts.                     *)
(***************************************************************************)
RECURSIVE FcRun(_, _)
FcRun(f, outs) ==
    IF f.pc = "sleep" THEN FcRun(FcWake(f), outs)
    ELSE IF f.pc # "try" \/ outs = <<>> THEN f
    ELSE FcRun(FcAttempt(f, Head(outs), 0), Tail(outs))

\* the outcomes a caller's request can meet, and the runs of them one call can see
CallOutcomes ==
    {OkOutcome, NetOutcome, Outcome("http", 404, FALSE, 0), Outcome("http", 403, TRUE, 0)}

CallRuns == [1..MAX_RETRIES -> CallOutcomes]

\* _make_github_api_request(url, params) raises instead of returning a response
FetchRaises(outs) == FcRun(FcStart("activity", 0), outs).pc = "raised"

(***************************************************************************)
(* The offset paginators.  pg.kind names the code:                         *)
(*   "search"        _search_github_paginated (through the fetch client)   *)
(*   "all_paginated" get_all_paginated_data   (bare requests.get)          *)
(*   "contributors"  get_repo_contributors    (bare requests.get)          *)
(*   "commits"       the commits loop of fetch_contributor_activity, the    *)
(*                   per-commit detail calls left out                      *)
(*   "issues"        get_repo_issues          (bare requests.get)          *)
(* pg.page is the page about to be requested, pg.results the accumulated   *)
(* list, pg.out the dictionary get_repo_issues returns; pg.served (the     *)
(* pages the source answered with), pg.requests (page requests made),      *)
(* pg.asked (the page numbers requested, in order) and pg.failed (a page   *)
(* request failed) record the run.                                         *)
(***************************************************************************)
Paginators == {"search", "all_paginated", "contributors", "commits", "issues"}

PgIdle ==
    [kind |-> "search", pc |-> "idle", page |-> 1, results |-> <<>>,
     served |-> <<>>, requests |-> 0, asked |-> <<>>, failed |-> FALSE,
     out |-> [kind |-> "none"]]

PgStart(k) == [PgIdle EXCEPT !.kind = k, !.pc = "fetch"]

\* pages of at most PerPage items drawn from the ids 1..NumIds, none listed twice
PagesOfLen(n) ==
    {ids \in [1..n -> 1..NumIds] : \A i, j \in 1..n : ids[i] = ids[j] => i = j}

PartialPages == UNION {PagesOfLen(n) : n \in 0..(PerPage - 1)}

FullPages == PagesOfLen(PerPage)

\* what the source can answer to a request for page p: it holds fewer than
\* MaxPages * PerPage items, so page MaxPages is never full
PagesAt(p) == IF p >= MaxPages THEN PartialPages ELSE PartialPages \cup FullPages

\* len(items) < per_page: this was the last page
IsLastPageOnlyWhenEmpty(items) == Len(items) = 0

IsLastPage(items) == Len(items) < PerPage

\* the request for page pg.page was made
PgAsked(p) == [p EXCEPT !.requests = @ + 1, !.asked = Append(@, p.page)]

\* the request failed and the loop is left by break: the function returns results
PgBreakOnError(p) == [PgAsked(p) EXCEPT !.failed = TRUE, !.pc = "returned"]

\* the request failed and the exception leaves the function
PgRaise(p) == [PgAsked(p) EXCEPT !.failed = TRUE, !.pc = "raised"]

\* the loop body of _search_github_paginated after a response with these items
SearchPage(p, items) ==
    LET got == [PgAsked(p) EXCEPT !.served = Append(@, items)]
    IN  IF items = <<>> THEN [got EXCEPT !.pc = "returned"]
        ELSE IF IsLastPage(items)
        THEN [got EXCEPT !.results = @ \o items, !.pc = "returned"]
        ELSE [got EXCEPT !.results = @ \o items, !.page = @ + 1]

\* the loop body of get_all_paginated_data: page += 1 precedes the length test
AllPaginatedPage(p, items) ==
    LET got == [PgAsked(p) EXCEPT !.served = Append(@, items)]
    IN  IF items = <<>> THEN [got EXCEPT !.pc = "returned"]
        ELSE IF IsLastPage(items)
        THEN [got EXCEPT !.results = @ \o items, !.page = @ + 1, !.pc = "returned"]
        ELSE [got EXCEPT !.results = @ \o items, !.page = @ + 1]

\* the loop body of get_repo_contributors
ContributorsPage(p, items) ==
    LET got == [PgAsked(p) EXCEPT !.served = Append(@, items)]
    IN  IF items = <<>> THEN [got EXCEPT !.pc = "returned"]
        ELSE IF IsLastPage(items)
        THEN [got EXCEPT !.results = @ \o items, !.pc = "returned"]
        ELSE [got EXCEPT !.results = @ \o items, !.page = @ + 1]

\* the commits loop: if not commits_data: break ... if len(commits_data) < 100: break
CommitsPage(p, items) ==
    LET got == [PgAsked(p) EXCEPT !.served = Append(@, items)]
    IN  IF items = <<>> THEN [got EXCEPT !.pc = "returned"]
        ELSE IF IsLastPage(items)
        THEN [got EXCEPT !.results = @ \o items, !.pc = "returned"]
        ELSE [got EXCEPT !.results = @ \o items, !.page = @ + 1]

\* the total_count a search response can carry with these items on page p.page
TotalCounts(p, items) == ((p.page - 1) * PerPage + Len(items))..(MaxPages * PerPage)

\* page >= data.get("total_count", 0) // 100 + 1
LastPageByCountOffByOne(page, total_count) == page >= total_count \div PerPage

LastPageByCount(page, total_count) == page >= total_count \div PerPage + 1

\* get_repo_issues: the success dictionary
IssuesReturn(p) ==
    [p EXCEPT !.pc = "returned",
              !.out = [kind |-> "success", total_issues |-> Len(p.results),
                       issues |-> p.results]]

\* the loop body of get_repo_issues after a response with these items
IssuesPage(p, items, total_count) ==
    LET got == [PgAsked(p) EXCEPT !.served = Append(@, items)]
        more == [got EXCEPT !.results = @ \o items]
    IN  IF items = <<>> THEN IssuesReturn(got)
        ELSE IF IsLastPage(items) \/ LastPageByCount(p.page, total_count)
        THEN IssuesReturn(more)
        ELSE [more EXCEPT !.page = @ + 1]

\* except RequestException as e: e.response.json() raises when the response is
\* None (a connection error) or its body is not JSON; else the error dictionary
IssuesFailed(p, o, json_body) ==
    IF o.kind = "net" \/ ~json_body THEN PgRaise(p)
    ELSE [PgAsked(p) EXCEPT !.failed = TRUE, !.pc = "returned",
                            !.out = [kind |-> "error", status_code |-> o.status]]

\* _search_github_paginated: try: _make_github_api_request ... except Exception: break
PgSearch ==
    /\ pg.kind = "search"
    /\ pg.pc = "fetch"
    /\ \E outs \in CallRuns :
          IF FetchRaises(outs)
          THEN pg' = PgBreakOnError(pg)
          ELSE \E items \in PagesAt(pg.page) : pg' = SearchPage(pg, items)
    /\ UNCHANGED <<fc, ag, wf, ep, tl, st, fl, cp, cf, tr, ws, gs>>

\* get_all_paginated_data: requests.get; status_code != 200: break
PgAllPaginated ==
    /\ pg.kind = "all_paginated"
    /\ pg.pc = "fetch"
    /\ \E o \in CallOutcomes :
          IF o.kind = "net" THEN pg' = PgRaise(pg)
          ELSE IF o.kind = "http" THEN pg' = PgBreakOnError(pg)
          ELSE \E items \in PagesAt(pg.page) : pg' = AllPaginatedPage(pg, items)
    /\ UNCHANGED <<fc, ag, wf, ep, tl, st, fl, cp, cf, tr, ws, gs>>

\* get_repo_contributors: requests.get; status_code != 200: raise Exception
PgContributors ==
    /\ pg.kind = "contributors"
    /\ pg.pc = "fetch"
    /\ \E o \in CallOutcomes :
          IF o.kind \in {"net", "http"} THEN pg' = PgRaise(pg)
          ELSE \E items \in PagesAt(pg.page) : pg' = ContributorsPage(pg, items)
    /\ UNCHANGED <<fc, ag, wf, ep, tl, st, fl, cp, cf, tr, ws, gs>>

\* the commits loop: try: _make_github_api_request ... except Exception: break
PgCommits ==
    /\ pg.kind = "commits"
    /\ pg.pc = "fetch"
    /\ \E outs \in CallRuns :
          IF FetchRaises(outs)
          THEN pg' = PgBreakOnError(pg)
          ELSE \E items \in PagesAt(pg.page) : pg' = CommitsPage(pg, items)
    /\ UNCHANGED <<fc, ag, wf, ep, tl, st, fl, cp, cf, tr, ws, gs>>

\* get_repo_issues: requests.get, raise_for_status, inside try ... except
PgIssues ==
    /\ pg.kind = "issues"
    /\ pg.pc = "fetch"
    /\ \E o \in CallOutcomes :
          IF o.kind \in {"net", "http"}
          THEN \E json_body \in BOOLEAN : pg' = IssuesFailed(pg, o, json_body)
          ELSE \E items \in PagesAt(pg.page) : \E total_count \in TotalCounts(pg, items) :
                  pg' = IssuesPage(pg, items, total_count)
    /\ UNCHANGED <<fc, ag, wf, ep, tl, st, fl, cp, cf, tr, ws, gs>>

(***************************************************************************)
(* fetch_contributor_activity.  One step is one _make_github_api_request   *)
(* call (a page of a list, or one commit's detail) with the code up to the *)
(* next call.  ag.pc names the call about to be made:                      *)
(*   "commits" "commit_detail" "authored" "reviewed" "commenter" "reviews" *)
(*   "review_comments" "issue_comments" "created" "closed" "events",       *)
(* then "done" (the report was returned) or "raised" (an exception left    *)
(* the function).  The report is the fields named as in the code's         *)
(* activity dict; the other fields are the function's locals.              *)
(* Times are 2 * day + s, s = 0 for 00:00:00 and s = 1 for 23:59:59 of     *)
(* the day; an ISO string is [t, z], z = 0 for the "+00:00" suffix of      *)
(* isoformat() and z = 1 for the "Z" suffix of GitHub's timestamps.        *)
(* ag.left is how many more items the sources will serve; ag.last is       *)
(* the latest fetch-client call made (the pc it was made at, the sha or    *)
(* number it was about, 0 for a list), and whether it returned;            *)
(* ag.evidence is the positions in potentially_closed_items of the issues  *)
(* whose fetched events showed a close by the user inside the window.      *)
(***************************************************************************)
Users == {"me", "other"}

\* start_date_str and end_date_str as day numbers: a window of one day
Windows == {<<1, 1>>}

AgIdle ==
    [pc |-> "idle", start_day |-> 1, end_day |-> 1, page |-> 1, idx |-> 1,
     left |-> 0, commits_data |-> <<>>, commits_list |-> <<>>,
     unique_files_set |-> {}, results |-> <<>>,
     reviewed_pr_items |-> <<>>, commenter_pr_items |-> <<>>,
     involved_pr_items |-> <<>>, processed |-> {}, details |-> <<>>,
     potentially_closed_items |-> <<>>, closed_by_user |-> FALSE,
     total_commits |-> 0, commits |-> <<>>, total_lines_changed |-> 0,
     unique_files_changed_in_commits |-> <<>>, authored_prs |-> <<>>,
     reviews_and_review_comments |-> <<>>, general_pr_comments |-> <<>>,
     created_issues |-> <<>>, closed_issues_by_user |-> <<>>,
     last |-> [call |-> "none", key |-> 0, ok |-> TRUE], evidence |-> {}]

AgStart(w) ==
    [AgIdle EXCEPT !.pc = "commits", !.start_day = w[1], !.end_day = w[2],
                   !.left = MaxItems]

\* start_datetime_iso_commits and end_datetime_iso_commits (start of the next day)
StartIso(a) == [t |-> 2 * a.start_day, z |-> 0]

EndIso(a) == [t |-> 2 * (a.end_day + 1), z |-> 0]

\* a timestamp as GitHub writes it, "...Z"
GithubIso(at) == [t |-> at, z |-> 1]

\* str <= str on two ISO strings: the date-time digits first, then the suffix
IsoLeq(x, y) == x.t < y.t \/ (x.t = y.t /\ x.z <= y.z)

\* the instants the sources stamp items with: from the last second of the day
\* before the window to the midnight after it
Times(a) == (2 * a.start_day - 1)..(2 * (a.end_day + 1))

Min(x, y) == IF x <= y THEN x ELSE y

\* the pages a source can answer page p of a list with, items drawn from S
PagesFor(a, S) ==
    {items \in UNION {[1..n -> S] : n \in 0..Min(PerPage, a.left)} :
        a.page >= MaxPages => Len(items) < PerPage}

\* the sha, PR number or issue number the call at a.pc is about
CallKey(a) ==
    CASE a.pc = "commit_detail" -> a.commits_data[a.idx]
      [] a.pc \in {"reviews", "review_comments", "issue_comments"} ->
            a.involved_pr_items[a.idx].number
      [] a.pc = "events" -> a.potentially_closed_items[a.idx].number
      [] OTHER -> 0

\* the call at a.pc returned / returned a page of these items / raised
Returned(a) == [a EXCEPT !.last = [call |-> a.pc, key |-> CallKey(a), ok |-> TRUE]]

Served(a, items) == [Returned(a) EXCEPT !.left = @ - Len(items)]

Raised(a) == [a EXCEPT !.last = [call |-> a.pc, key |-> CallKey(a), ok |-> FALSE]]

\* pages of shas or numbers: one page does not list an item twice
IdPages(a) ==
    {ids \in PagesFor(a, 1..NumIds) : \A i, j \in 1..Len(ids) : ids[i] = ids[j] => i = j}

\* some run of attempt outcomes makes the fetch client raise / return
FetchCanRaise == \E outs \in CallRuns : FetchRaises(outs)

FetchCanReturn == \E outs \in CallRuns : ~FetchRaises(outs)

Range(q) == {q[i] : i \in 1..Len(q)}

\* sorted(list(unique_files_set))
RECURSIVE Sorted(_)
Sorted(S) ==
    IF S = {} THEN <<>>
    ELSE LET m == CHOOSE x \in S : \A y \in S : x <= y
         IN  <<m>> \o Sorted(S \ {m})

----------------------------------------------------------------------------
\* the search loops: a fresh _search_github_paginated call for the query of phase
StartSearch(a, phase) == [a EXCEPT !.pc = phase, !.page = 1, !.results = <<>>]

\* a search hit: the PR or issue number, and the query whose result it is
SearchPages(a) ==
    {[i \in 1..Len(ns) |-> [number |-> ns[i], via |-> a.pc]] : ns \in IdPages(a)}

\* the for loops that copy the hits of a search into a list of the report
ReportItems(items) == [i \in 1..Len(items) |-> [number |-> items[i].number]]

\* the 1st loop over involved_pr_items: the next PR not yet in
\* processed_pr_for_reviews_comments, or the 2nd loop when there is none
RECURSIVE StartGeneral(_, _)
StartGeneral(a, i) ==
    IF i > Len(a.involved_pr_items)
    THEN StartSearch([a EXCEPT !.idx = i], "created")
    ELSE IF a.involved_pr_items[i].number \in a.processed
    THEN StartGeneral(a, i + 1)
    ELSE [a EXCEPT !.idx = i, !.processed = @ \cup {a.involved_pr_items[i].number},
                   !.details = <<>>, !.page = 1, !.pc = "issue_comments"]

RECURSIVE StartReviews(_, _)
StartReviews(a, i) ==
    IF i > Len(a.involved_pr_items)
    THEN StartGeneral([a EXCEPT !.processed = {}], 1)
    ELSE IF a.involved_pr_items[i].number \in a.processed
    THEN StartReviews(a, i + 1)
    ELSE [a EXCEPT !.idx = i, !.processed = @ \cup {a.involved_pr_items[i].number},
                   !.details = <<>>, !.page = 1, !.pc = "reviews"]

\* involved_pr_map: reviewed items keyed by number, then the commenter items
\* whose number is not a key yet; list(involved_pr_map.values())
RECURSIVE DedupConcat(_, _)
DedupConcat(seen, q) ==
    IF q = <<>> THEN <<>>
    ELSE IF Head(q).number \in seen THEN DedupConcat(seen, Tail(q))
    ELSE <<Head(q)>> \o DedupConcat(seen \cup {Head(q).number}, Tail(q))

InvolvedPrItemsNoDedup(reviewed, commenter) == reviewed \o commenter

InvolvedPrItems(reviewed, commenter) == DedupConcat({}, reviewed \o commenter)

\* the events loop for potentially_closed_items[i], or the end of the function
StartEvents(a, i) ==
    IF i > Len(a.potentially_closed_items)
    THEN [a EXCEPT !.idx = i, !.pc = "done"]
    ELSE [a EXCEPT !.idx = i, !.page = 1, !.closed_by_user = FALSE, !.pc = "events"]

\* what follows the return of _search_github_paginated in each phase
AfterSearch(a) ==
    CASE a.pc = "authored" ->
            StartSearch([a EXCEPT !.authored_prs = @ \o ReportItems(a.results)],
                        "reviewed")
      [] a.pc = "reviewed" ->
            StartSearch([a EXCEPT !.reviewed_pr_items = a.results], "commenter")
      [] a.pc = "commenter" ->
            StartReviews([a EXCEPT !.commenter_pr_items = a.results,
                                   !.involved_pr_items =
                                       InvolvedPrItems(a.reviewed_pr_items, a.results),
                                   !.processed = {}], 1)
      [] a.pc = "created" ->
            StartSearch([a EXCEPT !.created_issues = @ \o ReportItems(a.results)],
                        "closed")
      [] a.pc = "closed" ->
            StartEvents([a EXCEPT !.potentially_closed_items = a.results], 1)

\* _search_github_paginated, except Exception: log, break, return results
SearchFailed(a) == AfterSearch(Raised(a))

\* _search_github_paginated, the loop body after a response with these items
SearchGot(a, items) ==
    LET b == Served(a, items)
    IN  IF items = <<>> THEN AfterSearch(b)
        ELSE IF IsLastPage(items)
        THEN AfterSearch([b EXCEPT !.results = @ \o items])
        ELSE [b EXCEPT !.results = @ \o items, !.page = @ + 1]

----------------------------------------------------------------------------
\* the commits loop
NoDetail == [additions |-> 0, deletions |-> 0, files |-> <<>>]

\* what GET commits/{sha} can answer: stats and the files' names
CommitDetails(a) ==
    {d \in [additions : 0..MaxLines, deletions : 0..MaxLines,
            files : {<<>>, <<1>>, <<2, 1>>}] : a.left = 0 => d = NoDetail}

\* after the while loop: activity["commits"], total_commits, sorted unique files
AfterCommits(a) ==
    StartSearch([a EXCEPT !.commits = a.commits_list,
                          !.total_commits = Len(a.commits_list),
                          !.unique_files_changed_in_commits = Sorted(a.unique_files_set)],
                "authored")

\* except Exception: log, break
CommitsFailed(a) == AfterCommits(Raised(a))

CommitsGot(a, shas) ==
    IF shas = <<>> THEN AfterCommits(Returned(a))
    ELSE [Served(a, shas) EXCEPT !.commits_data = shas, !.idx = 1, !.pc = "commit_detail"]

\* the end of one pass of the for loop over commits_data
NextCommit(a) ==
    IF a.idx < Len(a.commits_data) THEN [a EXCEPT !.idx = @ + 1]
    ELSE IF IsLastPage(a.commits_data) THEN AfterCommits(a)
    ELSE [a EXCEPT !.page = @ + 1, !.pc = "commits"]

CommitEntry(sha, d) ==
    [sha |-> sha, additions |-> d.additions, deletions |-> d.deletions,
     changed_files |-> d.files]

\* the detail fetch failed: the commit is listed with 0, 0 and no files
CommitDetailFailed(a) ==
    LET sha == a.commits_data[a.idx]
    IN  NextCommit([Raised(a) EXCEPT !.commits_list = Append(@, CommitEntry(sha, NoDetail))])

\* activity["total_lines_changed"] += (additions + deletions)
LinesChangedAdditionsOnly(d) == d.additions

LinesChanged(d) == d.additions + d.deletions

\* for f_name in changed_files_in_commit: unique_files_set.add(f_name)
AddFilesOfLastCommit(S, files) == Range(files)

AddFiles(S, files) == S \cup Range(files)

CommitDetailGot(a, d) ==
    LET sha == a.commits_data[a.idx]
        b == IF d = NoDetail THEN Returned(a) ELSE Served(a, <<d>>)
    IN  NextCommit([b EXCEPT
                             !.total_lines_changed = @ + LinesChanged(d),
                             !.unique_files_set = AddFiles(@, d.files),
                             !.commits_list = Append(@, CommitEntry(sha, d))])

----------------------------------------------------------------------------
\* the per-PR loops over involved_pr_items
CurrentPr(a) == a.involved_pr_items[a.idx].number

\* what the reviews, comments and events endpoints list: who did it, and when
Stamped(a) == [user : Users, at : Times(a)]

\* review.user.login == contributor_username and start <= submitted_at <= end
ReviewCounts(a, r) ==
    /\ r.user = "me"
    /\ IsoLeq(StartIso(a), GithubIso(r.at))
    /\ IsoLeq(GithubIso(r.at), EndIso(a))

\* comment.user.login == contributor_username and created_at <= end
CommentCounts(a, c) ==
    /\ c.user = "me"
    /\ IsoLeq(GithubIso(c.at), EndIso(a))

Activity(type, x) == [type |-> type, user |-> x.user, at |-> x.at]

\* the for loop over reviews_data: the activities appended to pr_activity_details
RECURSIVE ReviewsOf(_, _)
ReviewsOf(a, items) ==
    IF items = <<>> THEN <<>>
    ELSE (IF ReviewCounts(a, Head(items))
          THEN <<Activity("review", Head(items))>> ELSE <<>>)
         \o ReviewsOf(a, Tail(items))

\* the for loops over comments_data and issue_comments_data
RECURSIVE CommentsOf(_, _, _)
CommentsOf(a, type, items) ==
    IF items = <<>> THEN <<>>
    ELSE (IF CommentCounts(a, Head(items))
          THEN <<Activity(type, Head(items))>> ELSE <<>>)
         \o CommentsOf(a, type, Tail(items))

StartReviewComments(a) == [a EXCEPT !.pc = "review_comments", !.page = 1]

\* except Exception as e_rev: log, break
ReviewsFailedUncaught(a) == [Raised(a) EXCEPT !.pc = "raised"]

ReviewsFailed(a) == StartReviewComments(Raised(a))

ReviewsGot(a, items) ==
    LET b == Served(a, items)
        mine == ReviewsOf(a, items)
    IN  IF items = <<>> THEN StartReviewComments(b)
        ELSE IF IsLastPage(items)
        THEN StartReviewComments([b EXCEPT !.details = @ \o mine])
        ELSE [b EXCEPT !.details = @ \o mine, !.page = @ + 1]

\* the PR is recorded only if pr_activity_details is not empty
KeepPrAlways(details) == TRUE

KeepPr(details) == details # <<>>

\* if pr_activity_details: append the PR's entry; then the next PR of the loop
AfterReviewComments(a) ==
    LET entry == [pr_number |-> CurrentPr(a), activities |-> a.details]
    IN  StartReviews([a EXCEPT !.reviews_and_review_comments =
                                   IF KeepPr(a.details) THEN Append(@, entry) ELSE @],
                     a.idx + 1)

\* except Exception as e_comm: log, break
ReviewCommentsFailed(a) == AfterReviewComments(Raised(a))

ReviewCommentsGot(a, items) ==
    LET b == Served(a, items)
        mine == CommentsOf(a, "review_comment", items)
    IN  IF items = <<>> THEN AfterReviewComments(b)
        ELSE IF IsLastPage(items)
        THEN AfterReviewComments([b EXCEPT !.details = @ \o mine])
        ELSE [b EXCEPT !.details = @ \o mine, !.page = @ + 1]

\* if user_general_comments_on_pr: append the PR's entry; then the next PR
AfterIssueComments(a) ==
    LET entry == [pr_number |-> CurrentPr(a), comments |-> a.details]
    IN  StartGeneral([a EXCEPT !.general_pr_comments =
                                   IF KeepPr(a.details) THEN Append(@, entry) ELSE @],
                     a.idx + 1)

\* except Exception as e_issue_comm: log, break
IssueCommentsFailed(a) == AfterIssueComments(Raised(a))

IssueCommentsGot(a, items) ==
    LET b == Served(a, items)
        mine == CommentsOf(a, "comment", items)
    IN  IF items = <<>> THEN AfterIssueComments(b)
        ELSE IF IsLastPage(items)
        THEN AfterIssueComments([b EXCEPT !.details = @ \o mine])
        ELSE [b EXCEPT !.details = @ \o mine, !.page = @ + 1]

----------------------------------------------------------------------------
\* the events loop of each issue closed in the window
CurrentIssue(a) == a.potentially_closed_items[a.idx].number

Events(a) == [event : {"closed", "reopened"}, user : Users, at : Times(a)]

\* event == "closed", actor.login == contributor_username, start <= created_at <= end
ClosedByAnyone(a, e) ==
    /\ e.event = "closed"
    /\ IsoLeq(StartIso(a), GithubIso(e.at))
    /\ IsoLeq(GithubIso(e.at), EndIso(a))

ClosedByUser(a, e) ==
    /\ e.event = "closed"
    /\ e.user = "me"
    /\ IsoLeq(StartIso(a), GithubIso(e.at))
    /\ IsoLeq(GithubIso(e.at), EndIso(a))

\* a fetched event that is a close, by the user, from 00:00:00 of the start
\* date to 23:59:59 of the end date
UserClosedInWindow(a, e) ==
    /\ e.event = "closed"
    /\ e.user = "me"
    /\ 2 * a.start_day <= e.at
    /\ e.at <= 2 * a.end_day + 1

\* if issue_closed_by_target_user_in_range: append; then the next candidate
AfterEvents(a) ==
    StartEvents([a EXCEPT !.closed_issues_by_user =
                              IF a.closed_by_user
                              THEN Append(@, [number |-> CurrentIssue(a)]) ELSE @],
                a.idx + 1)

\* except Exception as e_event: log, break
EventsFailed(a) == AfterEvents(Raised(a))

EventsGot(a, items) ==
    LET b == [Served(a, items) EXCEPT
                  !.evidence = IF \E i \in 1..Len(items) : UserClosedInWindow(a, items[i])
                               THEN @ \cup {a.idx} ELSE @]
        hit == \E i \in 1..Len(items) : ClosedByUser(a, items[i])
    IN  IF items = <<>> THEN AfterEvents(b)
        ELSE IF hit \/ IsLastPage(items)
        THEN AfterEvents([b EXCEPT !.closed_by_user = hit])
        ELSE [b EXCEPT !.page = @ + 1]

----------------------------------------------------------------------------
\* The steps.  In each, either the fetch client raised (after its retries) or it
\* returned the source's answer.
AgCommits ==
    /\ ag.pc = "commits"
    /\ \/ FetchCanReturn /\ \E shas \in IdPages(ag) : ag' = CommitsGot(ag, shas)
       \/ FetchCanRaise /\ ag' = CommitsFailed(ag)
    /\ UNCHANGED <<fc, pg, wf, ep, tl, st, fl, cp, cf, tr, ws, gs>>

AgCommitDetail ==
    /\ ag.pc = "commit_detail"
    /\ \/ FetchCanReturn /\ \E d \in CommitDetails(ag) : ag' = CommitDetailGot(ag, d)
       \/ FetchCanRaise /\ ag' = CommitDetailFailed(ag)
    /\ UNCHANGED <<fc, pg, wf, ep, tl, st, fl, cp, cf, tr, ws, gs>>

AgSearch ==
    /\ ag.pc \in {"authored", "reviewed", "commenter", "created", "closed"}
    /\ \/ FetchCanReturn /\ \E items \in SearchPages(ag) : ag' = SearchGot(ag, items)
       \/ FetchCanRaise /\ ag' = SearchFailed(ag)
    /\ UNCHANGED <<fc, pg, wf, ep, tl, st, fl, cp, cf, tr, ws, gs>>

AgReviews ==
    /\ ag.pc = "reviews"
    /\ \/ FetchCanReturn /\ \E items \in PagesFor(ag, Stamped(ag)) : ag' = ReviewsGot(ag, items)
       \/ FetchCanRaise /\ ag' = ReviewsFailed(ag)
    /\ UNCHANGED <<fc, pg, wf, ep, tl, st, fl, cp, cf, tr, ws, gs>>

AgReviewComments ==
    /\ ag.pc = "review_comments"
    /\ \/ FetchCanReturn /\ \E items \in PagesFor(ag, Stamped(ag)) :
                               ag' = ReviewCommentsGot(ag, items)
       \/ FetchCanRaise /\ ag' = ReviewCommentsFailed(ag)
    /\ UNCHANGED <<fc, pg, wf, ep, tl, st, fl, cp, cf, tr, ws, gs>>

AgIssueComments ==
    /\ ag.pc = "issue_comments"
    /\ \/ FetchCanReturn /\ \E items \in PagesFor(ag, Stamped(ag)) :
                               ag' = IssueCommentsGot(ag, items)
       \/ FetchCanRaise /\ ag' = IssueCommentsFailed(ag)
    /\ UNCHANGED <<fc, pg, wf, ep, tl, st, fl, cp, cf, tr, ws, gs>>

AgEvents ==
    /\ ag.pc = "events"
    /\ \/ FetchCanReturn /\ \E items \in PagesFor(ag, Events(ag)) : ag' = EventsGot(ag, items)
       \/ FetchCanRaise /\ ag' = EventsFailed(ag)
    /\ UNCHANGED <<fc, pg, wf, ep, tl, st, fl, cp, cf, tr, ws, gs>>

(***************************************************************************)
(* The actor and window tests of fetch_contributor_activity, one item at a *)
(* time: wf holds the window, the kind of item a per-PR or per-issue       *)
(* endpoint listed, the item, and whether the test kept it.                *)
(***************************************************************************)
WfIdle ==
    [pc |-> "idle", start_day |-> 1, end_day |-> 1, kind |-> "none",
     item |-> [user |-> "none", at |-> 0], kept |-> FALSE]

\* start_date_str and end_date_str: the function takes any pair of dates
WfStart(s, e) == [WfIdle EXCEPT !.pc = "ready", !.start_day = s, !.end_day = e]

ItemKinds == {"review", "review_comment", "comment", "closed_event"}

\* from 00:00:00 of the day before the first date to 23:59:59 of the day after the last
WfTimes == 0..(2 * (MaxDay + 1) + 1)

WfItems(kind) ==
    IF kind = "closed_event"
    THEN [event : {"closed", "reopened"}, user : Users, at : WfTimes]
    ELSE [user : Users, at : WfTimes]

\* the if statements that guard the appends and the closed-by-user flag
Keeps(a, kind, item) ==
    CASE kind = "review" -> ReviewCounts(a, item)
      [] kind \in {"review_comment", "comment"} -> CommentCounts(a, item)
      [] kind = "closed_event" -> ClosedByUser(a, item)

WfFilter ==
    /\ wf.pc \in {"ready", "filtered"}
    /\ \E kind \in ItemKinds : \E item \in WfItems(kind) :
          wf' = [wf EXCEPT !.pc = "filtered", !.kind = kind, !.item = item,
                           !.kept = Keeps(wf, kind, item)]
    /\ UNCHANGED <<fc, pg, ag, ep, tl, st, fl, cp, cf, tr, ws, gs>>

(***************************************************************************)
(* The entry of the tools and endpoint handlers: the checks each makes, in *)
(* the order of its code, before its first outbound HTTP request.  ep is   *)
(* one call: the operation, whether GITHUB_TOKEN is set, the two date      *)
(* strings, the check about to be made, and the requests issued so far.    *)
(***************************************************************************)
Tools ==
    {"fetch_contributor_activity", "get_repo_issues", "list_repository_pull_requests",
     "get_repo_contributors", "fetch_pull_request_details"}

Endpoints ==
    {"get_contributor_activity_endpoint", "list_repository_issues_endpoint",
     "get_repo_stats", "get_top_contributors_stats", "get_team_activity",
     "get_recent_activity", "get_builds"}

\* the operations that take start_date and end_date
DateWindowed ==
    {"fetch_contributor_activity", "get_repo_issues",
     "get_contributor_activity_endpoint", "list_repository_issues_endpoint"}

\* a date string: a calendar day written YYYY-MM-DD, or ten characters
\* of that shape that name no day ("2024-13-45"), or any other text
Dates ==
    {[form |-> "date", day |-> d] : d \in 1..MaxDay}
        \cup {[form |-> "no_such_day", day |-> 0], [form |-> "text", day |-> 0]}

\* Query(..., regex=r"^\d{4}-\d{2}-\d{2}$")
MatchesRegex(d) == d.form # "text"

\* datetime.strptime(d, "%Y-%m-%d") returns
Parses(d) == d.form = "date"

\* the checks of each operation, in the order the code makes them
Checks(op) ==
    CASE op = "fetch_contributor_activity" -> <<"token", "strptime">>
      [] op = "get_contributor_activity_endpoint" -> <<"regex", "token", "strptime">>
      [] op = "get_repo_issues" -> <<"token", "strptime", "order">>
      [] op = "list_repository_issues_endpoint" ->
            <<"regex", "strptime", "order", "token", "strptime", "order">>
      [] op = "get_builds" -> <<>>
      [] OTHER -> <<"token">>

Passes(check, e) ==
    CASE check = "token" -> e.token
      [] check = "regex" -> MatchesRegex(e.start) /\ MatchesRegex(e.end)
      [] check = "strptime" -> Parses(e.start) /\ Parses(e.end)
      [] check = "order" -> ~(e.end.day < e.start.day)

\* ValueError / HTTPException about the token, or about the dates
ErrorOf(check) == IF check = "token" THEN "configuration" ELSE "validation"

EpIdle ==
    [pc |-> "idle", op |-> "none", token |-> TRUE,
     start |-> [form |-> "date", day |-> 1], end |-> [form |-> "date", day |-> 1],
     step |-> 1, requests |-> 0, error |-> "none"]

EpStart(op, token, s, e) ==
    [EpIdle EXCEPT !.pc = "checking", !.op = op, !.token = token, !.start = s, !.end = e]

\* the next check: an exception leaves the operation, otherwise on to the next
EpCheck ==
    /\ ep.pc = "checking"
    /\ ep.step <= Len(Checks(ep.op))
    /\ LET check == Checks(ep.op)[ep.step]
       IN  ep' = IF Passes(check, ep) THEN [ep EXCEPT !.step = @ + 1]
                 ELSE [ep EXCEPT !.pc = "rejected", !.error = ErrorOf(check)]
    /\ UNCHANGED <<fc, pg, ag, wf, tl, st, fl, cp, cf, tr, ws, gs>>

\* all checks passed: the first requests.get of the operation
EpRequest ==
    /\ ep.pc = "checking"
    /\ ep.step > Len(Checks(ep.op))
    /\ ep' = [ep EXCEPT !.pc = "requested", !.requests = @ + 1]
    /\ UNCHANGED <<fc, pg, ag, wf, tl, st, fl, cp, cf, tr, ws, gs>>

(***************************************************************************)
(* get_team_activity (/repo/team-activity): the date bins and the counting *)
(* of events into them.  Dates are day numbers, a timestamp is 2 * day + s *)
(* as above.  tl holds the period, today's date, the bins, the counters of *)
(* each bin, the loop the handler is in, the latest event with the bin it  *)
(* was given, and per metric how many events so far were dated on or after *)
(* the earliest bin.                                                       *)
(***************************************************************************)
Periods == {"week", "month", "quarter"}

Metrics == {"commits", "prs", "reviews"}

\* now - timedelta(days=6 - i), (21 - i * 7), (77 - i * 7) for i in range(7), (4), (12)
get_date_bins_until_yesterday(period, now) ==
    CASE period = "week" -> [i \in 1..7 |-> now - (7 - (i - 1))]
      [] period = "month" -> [i \in 1..4 |-> now - (28 - (i - 1) * 7)]
      [] period = "quarter" -> [i \in 1..12 |-> now - (84 - (i - 1) * 7)]

get_date_bins(period, now) ==
    CASE period = "week" -> [i \in 1..7 |-> now - (6 - (i - 1))]
      [] period = "month" -> [i \in 1..4 |-> now - (21 - (i - 1) * 7)]
      [] period = "quarter" -> [i \in 1..12 |-> now - (77 - (i - 1) * 7)]

\* date_obj.strftime("%Y-%m-%d"); None is no label
bin_label(d) == [ymd |-> d]

None == [ymd |-> 0]

\* datetime.strptime(date_str, "%Y-%m-%dT%H:%M:%SZ").date()
DateOf(ts) == ts \div 2

\* for d in bins, first to last: the first d with date_obj >= d
RECURSIVE FirstBinFrom(_, _, _)
FirstBinFrom(date_obj, bins, i) ==
    IF i > Len(bins) THEN None
    ELSE IF date_obj >= bins[i] THEN bin_label(bins[i])
    ELSE FirstBinFrom(date_obj, bins, i + 1)

find_bin_forward(date_str, bins) == FirstBinFrom(DateOf(date_str), bins, 1)

\* for d in reversed(bins): the first d with date_obj >= d, else None
RECURSIVE LastBinFrom(_, _, _)
LastBinFrom(date_obj, bins, i) ==
    IF i = 0 THEN None
    ELSE IF date_obj >= bins[i] THEN bin_label(bins[i])
    ELSE LastBinFrom(date_obj, bins, i - 1)

find_bin(date_str, bins) == LastBinFrom(DateOf(date_str), bins, Len(bins))

TlIdle ==
    [pc |-> "idle", period |-> "week", now |-> 0, bins |-> <<>>, activity |-> <<>>,
     events |-> 0, last |-> [ts |-> 0, bin |-> None],
     dated |-> [m \in Metrics |-> 0]]

\* the handler was called with time_range = period on the day now
TlStart(period, now) == [TlIdle EXCEPT !.pc = "bins", !.period = period, !.now = now]

\* bins, bin_labels and the activity dict with every counter at 0
WithBins(t) ==
    LET bins == get_date_bins(t.period, t.now)
    IN  [t EXCEPT !.pc = "commits", !.bins = bins,
                  !.activity = [l \in {bin_label(bins[i]) : i \in 1..Len(bins)} |->
                                   [m \in Metrics |-> 0]]]

TlBuildBins ==
    /\ tl.pc = "bins"
    /\ tl' = WithBins(tl)
    /\ UNCHANGED <<fc, pg, ag, wf, ep, st, fl, cp, cf, tr, ws, gs>>

\* the timestamps of the events: 00:00:00 and 23:59:59 of the first day of
\* each bin, of the day before it and of the day after it
Stamps(t) ==
    {ts \in (2 * (t.bins[1] - 1))..(2 * (t.now + 1) + 1) :
        \E i \in 1..Len(t.bins) : DateOf(ts) \in (t.bins[i] - 1)..(t.bins[i] + 1)}

\* b = find_bin(ts); if b: activity[b][metric] += 1
Counted(t, ts) ==
    LET b == find_bin(ts, t.bins)
        c == [t EXCEPT !.events = @ + 1, !.last = [ts |-> ts, bin |-> b],
                       !.dated[t.pc] = IF DateOf(ts) >= t.bins[1] THEN @ + 1 ELSE @]
    IN  IF b # None THEN [c EXCEPT !.activity[b][t.pc] = @ + 1] ELSE c

\* one pass of the loop over commits, PRs or reviews
TlEvent ==
    /\ tl.pc \in Metrics
    /\ tl.events < MaxEvents
    /\ \E ts \in Stamps(tl) : tl' = Counted(tl, ts)
    /\ UNCHANGED <<fc, pg, ag, wf, ep, st, fl, cp, cf, tr, ws, gs>>

\* the loop is over: on to the PRs, the reviews, the return of the timeline
TlEndLoop ==
    /\ tl.pc \in Metrics
    /\ tl' = [tl EXCEPT !.pc = CASE tl.pc = "commits" -> "prs"
                                 [] tl.pc = "prs" -> "reviews"
                                 [] tl.pc = "reviews" -> "done"]
    /\ UNCHANGED <<fc, pg, ag, wf, ep, st, fl, cp, cf, tr, ws, gs>>

(***************************************************************************)
(* percentage_change of get_repo_stats (/repo/stats).  A string is the     *)
(* sequence of its characters, the infinity sign written "inf"; st holds   *)
(* the two counts and the string returned.                                 *)
(***************************************************************************)
DigitChars == <<"0", "1", "2", "3", "4", "5", "6", "7", "8", "9">>

\* the decimal digits of n >= 0
RECURSIVE Digits(_)
Digits(n) ==
    IF n < 10 THEN <<DigitChars[n + 1]>>
    ELSE Digits(n \div 10) \o <<DigitChars[(n % 10) + 1]>>

\* a / d (a >= 0, d > 0) cut to an integer
RoundDown(a, d) == a \div d

\* a / d (a >= 0, d > 0) to the nearest integer, a tie to the even one: what
\* the format specification .1f does with the tenths
RoundHalfEven(a, d) ==
    LET q == a \div d
        r == a % d
    IN  IF 2 * r < d THEN q
        ELSE IF 2 * r > d THEN q + 1
        ELSE IF q % 2 = 0 THEN q ELSE q + 1

\* f"{n / d * 100:.1f}%" for integers n and d > 0
FormatPercent(n, d) ==
    LET a == IF n < 0 THEN -n ELSE n
        tenths == RoundHalfEven(a * 1000, d)
    IN  (IF n < 0 THEN <<"-">> ELSE <<>>)
            \o Digits(tenths \div 10) \o <<".">> \o Digits(tenths % 10) \o <<"%">>

percentage_change(current, previous) ==
    IF previous = 0
    THEN (IF current > 0 THEN <<"+", "inf", "%">> ELSE <<"0", "%">>)
    ELSE FormatPercent(current - previous, previous)

StIdle == [pc |-> "idle", current |-> 0, previous |-> 0, out |-> <<>>]

StStart(current, previous) ==
    [StIdle EXCEPT !.pc = "counted", !.current = current, !.previous = previous]

\* "change": percentage_change(current, previous)
StChange ==
    /\ st.pc = "counted"
    /\ st' = [st EXCEPT !.pc = "returned",
                        !.out = percentage_change(st.current, st.previous)]
    /\ UNCHANGED <<fc, pg, ag, wf, ep, tl, fl, cp, cf, tr, ws, gs>>

(***************************************************************************)
(* The per-PR loop of fetch_contributor_activity (the reviews and the      *)
(* review comments of each involved PR) with a request and its response as *)
(* two steps.  fl holds the number of involved PRs, the PR and sub-fetch   *)
(* the loop is at, the page, the requests sent and not yet answered, the   *)
(* sub-fetches whose page loop is over, whether pr_activity_details holds  *)
(* anything, and the PRs appended to the report.                           *)
(***************************************************************************)
SubFetches == {"reviews", "review_comments"}

FlIdle ==
    [pc |-> "idle", n |-> 0, idx |-> 1, kind |-> "reviews", page |-> 1,
     inflight |-> 0, completed |-> {}, details |-> FALSE, report |-> {}]

\* for item in involved_pr_items
FlStart(n) == [FlIdle EXCEPT !.pc = IF n = 0 THEN "done" ELSE "send", !.n = n]

\* what one response does to the page loop: a full page, a short or empty
\* page, or an exception of the fetch client
Answers == {"full", "short", "raised"}

\* if pr_activity_details: append the PR's entry; then the next PR of the loop
FlMerge(f) ==
    LET g == [f EXCEPT !.report = IF f.details THEN @ \cup {f.idx} ELSE @,
                       !.details = FALSE, !.kind = "reviews", !.page = 1]
    IN  IF f.idx = f.n THEN [g EXCEPT !.pc = "done"]
        ELSE [g EXCEPT !.idx = @ + 1, !.pc = "send"]

\* the page loop of one sub-fetch is over: the other sub-fetch, or the merge
AfterSubFetchMergeEarly(f) == FlMerge([f EXCEPT !.completed = @ \cup {<<f.idx, f.kind>>}])

AfterSubFetch(f) ==
    LET g == [f EXCEPT !.completed = @ \cup {<<f.idx, f.kind>>}]
    IN  IF f.kind = "reviews"
        THEN [g EXCEPT !.kind = "review_comments", !.page = 1, !.pc = "send"]
        ELSE FlMerge(g)

\* _make_github_api_request: requests.get is called
FlSend ==
    /\ fl.pc = "send"
    /\ fl' = [fl EXCEPT !.pc = "wait", !.inflight = @ + 1]
    /\ UNCHANGED <<fc, pg, ag, wf, ep, tl, st, cp, cf, tr, ws, gs>>

\* requests.get returned or the client gave up; the for loop over the page
\* (kept says whether an item of the user passed the tests), then the breaks
FlReceive ==
    /\ fl.pc = "wait"
    /\ \E answer \in Answers, kept \in BOOLEAN :
          LET g == [fl EXCEPT !.inflight = @ - 1,
                              !.details = @ \/ (answer # "raised" /\ kept)]
          IN  fl' = IF answer = "full" /\ fl.page < MaxPages
                    THEN [g EXCEPT !.page = @ + 1, !.pc = "send"]
                    ELSE AfterSubFetch(g)
    /\ UNCHANGED <<fc, pg, ag, wf, ep, tl, st, cp, cf, tr, ws, gs>>

(***************************************************************************)
(* The cursor loops: github_commit_count of /repo/stats, the commit loop   *)
(* of /repo/contributor-stats and the commit loop of /repo/team-activity.  *)
(* URL 0 is the commits URL the loop starts with and 1..NumCursors are the *)
(* URLs a Link header can carry; params is whether the query parameters    *)
(* are passed.  cp holds the loop, its url and params, and the requests    *)
(* sent and the responses received so far.                                 *)
(***************************************************************************)
CursorLoops == {"github_commit_count", "get_top_contributors_stats", "get_team_activity"}

CpIdle ==
    [pc |-> "idle", loop |-> "none", url |-> 0, params |-> TRUE,
     sent |-> <<>>, got |-> <<>>]

\* url = commits_url; params = {"since": ..., "per_page": 100}
CpStart(loop) == [CpIdle EXCEPT !.pc = "loop", !.loop = loop]

\* a response: its status, and the URL of its "next" link, 0 when it has none;
\* the source answers the request number MaxRequests without a link
Responses(c) ==
    {r \in [ok : BOOLEAN, next : 0..NumCursors] :
        Len(c.sent) + 1 >= MaxRequests => r.next = 0}

\* params = None once a response came back
ParamsKept(params, r) == params

ParamsAfter(params, r) == FALSE

\* requests.get(url, headers=headers, params=params), then the rest of the pass
CpPass(c, r) ==
    LET d == [c EXCEPT !.sent = Append(@, [url |-> c.url, params |-> c.params]),
                       !.got = Append(@, r)]
    IN  IF ~r.ok
        THEN [d EXCEPT !.pc = IF c.loop = "get_team_activity" THEN "returned"
                              ELSE "raised"]
        ELSE IF r.next # 0
        THEN [d EXCEPT !.url = r.next, !.params = ParamsAfter(c.params, r)]
        ELSE [d EXCEPT !.params = IF c.loop = "get_team_activity"
                                  THEN ParamsAfter(c.params, r) ELSE @,
                       !.pc = "returned"]

CpCommitCount ==
    /\ cp.pc = "loop" /\ cp.loop = "github_commit_count"
    /\ \E r \in Responses(cp) : cp' = CpPass(cp, r)
    /\ UNCHANGED <<fc, pg, ag, wf, ep, tl, st, fl, cf, tr, ws, gs>>

CpContributorStats ==
    /\ cp.pc = "loop" /\ cp.loop = "get_top_contributors_stats"
    /\ \E r \in Responses(cp) : cp' = CpPass(cp, r)
    /\ UNCHANGED <<fc, pg, ag, wf, ep, tl, st, fl, cf, tr, ws, gs>>

CpTeamActivity ==
    /\ cp.pc = "loop" /\ cp.loop = "get_team_activity"
    /\ \E r \in Responses(cp) : cp' = CpPass(cp, r)
    /\ UNCHANGED <<fc, pg, ag, wf, ep, tl, st, fl, cf, tr, ws, gs>>

(***************************************************************************)
(* utils/cache.py: the file cache.  cf.file is the cache file of one path  *)
(* (whether it exists, its modification time, its JSON text), cf.now the   *)
(* clock in hours.  A Python dictionary is the sequence of its <<key,      *)
(* value>> pairs in insertion order, keys distinct; a key is a string or   *)
(* an integer.  A JSON object is the sequence of its <<name, value>>       *)
(* members as written.  cf.data is the dictionary of the last save,        *)
(* cf.result what the last step returned, cf.before the file as it was     *)
(* when load_from_cache was called.                                        *)
(***************************************************************************)
CACHE_TTL_HOURS == 12

DictKeys ==
    {[type |-> "str", text |-> "a"], [type |-> "str", text |-> "1"],
     [type |-> "int", text |-> "1"]}

\* the dictionaries save_to_cache is called with
Dicts ==
    {d \in UNION {[1..n -> DictKeys \X (0..MaxValue)] : n \in 0..MaxKeys} :
        \A i, j \in DOMAIN d : d[i][1] = d[j][1] => i = j}

\* a dictionary as the mapping it is: dictionaries are equal when these are
Mapping(pairs) ==
    [k \in {pairs[i][1] : i \in DOMAIN pairs} |->
        pairs[CHOOSE i \in DOMAIN pairs :
                 /\ pairs[i][1] = k
                 /\ \A j \in DOMAIN pairs : pairs[j][1] = k => j <= i][2]]

\* json.dump: every key is written as a string, an integer key by its digits
json_dump(d) == [i \in DOMAIN d |-> <<d[i][1].text, d[i][2]>>]

\* json.load: the names come back as strings, a repeated name keeps its last value
json_load(text) ==
    Mapping([i \in DOMAIN text |-> <<[type |-> "str", text |-> text[i][1]], text[i][2]>>])

NoFile == [exists |-> FALSE, mtime |-> 0, text |-> <<>>]

NoneResult == [kind |-> "None"]

CfIdle ==
    [pc |-> "idle", now |-> 0, file |-> NoFile, data |-> <<>>,
     result |-> NoneResult, before |-> NoFile]

CfStart == [CfIdle EXCEPT !.pc = "ready"]

\* age < timedelta(hours=CACHE_TTL_HOURS)
FreshUpToTtl(age) == age <= CACHE_TTL_HOURS

Fresh(age) == age < CACHE_TTL_HOURS

\* load_from_cache(path)
load_from_cache(file, now) ==
    IF file.exists /\ Fresh(now - file.mtime)
    THEN [kind |-> "dict", value |-> json_load(file.text)]
    ELSE NoneResult

\* save_to_cache(path, data): open(path, "w"), json.dump
CfSave ==
    /\ cf.pc # "idle"
    /\ \E d \in Dicts :
          cf' = [cf EXCEPT !.pc = "saved",
                           !.file = [exists |-> TRUE, mtime |-> cf.now,
                                     text |-> json_dump(d)],
                           !.data = d, !.result = NoneResult, !.before = NoFile]
    /\ UNCHANGED <<fc, pg, ag, wf, ep, tl, st, fl, cp, tr, ws, gs>>

CfLoad ==
    /\ cf.pc # "idle"
    /\ cf' = [cf EXCEPT !.pc = "loaded",
                        !.result = load_from_cache(cf.file, cf.now),
                        !.before = cf.file]
    /\ UNCHANGED <<fc, pg, ag, wf, ep, tl, st, fl, cp, tr, ws, gs>>

\* an hour passes
CfTick ==
    /\ cf.pc # "idle"
    /\ cf.now < MaxHour
    /\ cf' = [cf EXCEPT !.pc = "ready", !.now = @ + 1,
                        !.result = NoneResult, !.before = NoFile]
    /\ UNCHANGED <<fc, pg, ag, wf, ep, tl, st, fl, cp, tr, ws, gs>>

(***************************************************************************)
(* /repo/stats: get_time_range and the two calls build_summary makes.  A   *)
(* date is [year, month, day] in the Gregorian calendar; tr.now is the     *)
(* UTC date of the clock, which every call of get_time_range reads for     *)
(* itself and which moves on at midnight (tr.nights counts the midnights   *)
(* passed during the request); tr.current and tr.previous are the          *)
(* <<start, end>> pairs of get_time_range(range, 0) and                    *)
(* get_time_range(range, 1) as ISO dates.                                  *)
(***************************************************************************)
Ranges == {"week", "month", "quarter"}

Date(y, m, d) == [year |-> y, month |-> m, day |-> d]

IsLeap(y) == (y % 4 = 0 /\ y % 100 # 0) \/ y % 400 = 0

DaysInMonth(y, m) ==
    IF m = 2 THEN (IF IsLeap(y) THEN 29 ELSE 28)
    ELSE IF m \in {4, 6, 9, 11} THEN 30 ELSE 31

\* the dates the arithmetic can reach: a year before and a year after the current dates
CalendarYears == (FirstYear - 1)..(FirstYear + NumYears)

Calendar ==
    {dt \in [year : CalendarYears, month : 1..12, day : 1..31] :
        dt.day <= DaysInMonth(dt.year, dt.month)}

RECURSIVE DaysBeforeYear(_)
DaysBeforeYear(y) ==
    IF y <= FirstYear - 1 THEN 0
    ELSE DaysBeforeYear(y - 1) + (IF IsLeap(y - 1) THEN 366 ELSE 365)

RECURSIVE DaysBeforeMonth(_, _)
DaysBeforeMonth(y, m) ==
    IF m = 1 THEN 0 ELSE DaysBeforeMonth(y, m - 1) + DaysInMonth(y, m - 1)

\* datetime as a day count, for timedelta arithmetic
ToOrdinal(dt) == DaysBeforeYear(dt.year) + DaysBeforeMonth(dt.year, dt.month) + dt.day

FromOrdinal(n) == CHOOSE dt \in Calendar : ToOrdinal(dt) = n

\* dt - timedelta(weeks=w)
MinusWeeks(dt, w) == FromOrdinal(ToOrdinal(dt) - 7 * w)

\* dt + relativedelta(months=k): the month moves, the day is cut to the month's length
PlusMonths(dt, k) ==
    LET total == (dt.year * 12) + (dt.month - 1) + k
        y == total \div 12
        m == (total % 12) + 1
    IN  Date(y, m, Min(dt.day, DaysInMonth(y, m)))

\* date.isoformat(): YYYY-MM-DD
isoformat(dt) == <<dt.year, dt.month, dt.day>>

\* year_adjust = (start_month - 1) // 12
year_adjust(start_month) == (start_month - 1) \div 12

get_time_range(now, period, offset) ==
    IF period = "week"
    THEN <<isoformat(MinusWeeks(now, offset + 1)), isoformat(MinusWeeks(now, offset))>>
    ELSE IF period = "month"
    THEN LET first == PlusMonths([now EXCEPT !.day = 1], -(offset + 1))
             start == [first EXCEPT !.day = 1]
         IN  <<isoformat(start), isoformat(PlusMonths(start, 1))>>
    ELSE LET current_month == now.month - 1
             quarter == current_month \div 3
             start_month == quarter * 3 + 1 - offset * 3
             start == Date(now.year + year_adjust(start_month),
                           ((start_month - 1) % 12) + 1, 1)
         IN  <<isoformat(start), isoformat(PlusMonths(start, 3))>>

TrIdle ==
    [pc |-> "idle", now |-> Date(FirstYear, 1, 1), period |-> "week",
     nights |-> 0, current |-> <<>>, previous |-> <<>>]

TrStart(now, period) == [TrIdle EXCEPT !.pc = "start", !.now = now, !.period = period]

\* midnight UTC passes while the request is being served
TrMidnight ==
    /\ tr.pc \in {"start", "current"}
    /\ tr.nights < MaxNights
    /\ tr' = [tr EXCEPT !.now = FromOrdinal(ToOrdinal(@) + 1), !.nights = @ + 1]
    /\ UNCHANGED <<fc, pg, ag, wf, ep, tl, st, fl, cp, cf, ws, gs>>

\* now = datetime.utcnow() ...; current_start, current_end = get_time_range(range, offset=0)
TrCurrent ==
    /\ tr.pc = "start"
    /\ tr' = [tr EXCEPT !.pc = "current",
                        !.current = get_time_range(tr.now, tr.period, 0)]
    /\ UNCHANGED <<fc, pg, ag, wf, ep, tl, st, fl, cp, cf, ws, gs>>

\* now = datetime.utcnow() ...; previous_start, previous_end = get_time_range(range, offset=1)
TrPrevious ==
    /\ tr.pc = "current"
    /\ tr' = [tr EXCEPT !.pc = "done",
                        !.previous = get_time_range(tr.now, tr.period, 1)]
    /\ UNCHANGED <<fc, pg, ag, wf, ep, tl, st, fl, cp, cf, ws, gs>>

(***************************************************************************)
(* websocket_handler.py: WebSocketHandler.  One step of a connection is    *)
(* the code of handle_websocket between two awaits; broadcast_message runs *)
(* between the steps of the connections and is suspended in its sends.     *)
(* ws.conn[c] is connection c: where its handler stands, the token of its  *)
(* query string, its user_id, the messages sent to it, the client messages *)
(* read, whether it was ever stored in active_connections.  ws.slots is    *)
(* active_connections: the entries of the dict in insertion order, a       *)
(* deleted entry staying in place as a dead slot, which is how the dict    *)
(* iterator sees them.  ws.bc is one call of broadcast_message: its dict   *)
(* iterator (used, left, pos), the connections registered when it was      *)
(* called (due), and those it tried and failed to send to.                 *)
(***************************************************************************)
Conns == 1..NumConns

\* the token of the query string: none, or a JWT that is malformed or wrongly
\* signed, expired, or valid; sub is its subject claim, 0 when it has none
Tokens ==
    {[kind |-> k, sub |-> 0] : k \in {"missing", "invalid", "expired"}}
        \cup {[kind |-> "valid", sub |-> u] : u \in 0..NumUsers}

PyNone == [none |-> TRUE]

\* JWTValidator.validate_token: None, or the standardized payload, which
\* always has the key "sub" ("sub": payload.get("sub") or payload.get("subject"))
validate_token(token) ==
    IF token.kind = "valid" THEN [none |-> FALSE, sub |-> token.sub] ELSE PyNone

\* str(payload.get("sub", "")): the key is there, so an absent subject is str(None)
UserIdOf(payload) == IF payload.sub = 0 THEN "None" ELSE ToString(payload.sub)

\* the checks of lines 50-73: the error a connection is turned away with
RejectionOf(token) ==
    IF token.kind = "missing" THEN "Authentication required"
    ELSE IF validate_token(token) = PyNone THEN "Invalid or expired token"
    ELSE IF UserIdOf(validate_token(token)) = "" THEN "Invalid token format"
    ELSE "none"

\* active_connections as the dict sees it
LiveAt(slots, key) == {i \in DOMAIN slots : slots[i].live /\ slots[i].key = key}

LiveSlots(slots) == {i \in DOMAIN slots : slots[i].live}

DictLen(slots) == Cardinality(LiveSlots(slots))

\* self.active_connections[user_id] = (send, receive)
DictSet(slots, key, c) ==
    IF LiveAt(slots, key) # {}
    THEN [i \in DOMAIN slots |->
            IF i \in LiveAt(slots, key) THEN [slots[i] EXCEPT !.conn = c] ELSE slots[i]]
    ELSE Append(slots, [key |-> key, conn |-> c, live |-> TRUE])

\* del self.active_connections[user_id]
DictDel(slots, key) ==
    [i \in DOMAIN slots |->
        IF i \in LiveAt(slots, key) THEN [slots[i] EXCEPT !.live = FALSE] ELSE slots[i]]

NewConn ==
    [pc |-> "new", token |-> [kind |-> "missing", sub |-> 0], user_id |-> "",
     sent |-> <<>>, reads |-> 0, stored |-> FALSE]

BcOff ==
    [pc |-> "off", used |-> 0, left |-> 0, pos |-> 1, target |-> 0,
     due |-> {}, tried |-> {}, failed |-> {}]

WsIdle == [pc |-> "idle", conn |-> [c \in Conns |-> NewConn], slots |-> <<>>, bc |-> BcOff]

WsStart == [WsIdle EXCEPT !.pc = "serving", !.bc.pc = "idle"]

\* finally: if user_id and user_id in self.active_connections: del ...
Cleanup(w, c) ==
    LET user_id == w.conn[c].user_id
    IN  [w EXCEPT !.conn[c].pc = "ended",
                  !.slots = IF user_id # "" /\ LiveAt(w.slots, user_id) # {}
                            THEN DictDel(@, user_id) ELSE @]

Delivered(w, c, message) == [w EXCEPT !.conn[c].sent = Append(@, message)]

\* the connection is accepted and lines 37-78 run up to the next send
WsOpen ==
    /\ ws.pc = "serving"
    /\ \E c \in Conns : \E token \in Tokens :
          /\ ws.conn[c].pc = "new"
          /\ IF RejectionOf(token) # "none"
             THEN ws' = [ws EXCEPT !.conn[c].pc = "rejecting", !.conn[c].token = token]
             ELSE LET user_id == UserIdOf(validate_token(token))
                  IN  ws' = [ws EXCEPT !.conn[c].pc = "confirming",
                                       !.conn[c].token = token,
                                       !.conn[c].user_id = user_id,
                                       !.conn[c].stored = TRUE,
                                       !.slots = DictSet(@, user_id, c)]
    /\ UNCHANGED <<fc, pg, ag, wf, ep, tl, st, fl, cp, cf, tr, gs>>

\* await send({"error": ...}) answers or raises
WsRejectSent ==
    /\ \E c \in Conns : \E ok \in BOOLEAN :
          /\ ws.conn[c].pc = "rejecting"
          /\ ws' = IF ok
                   THEN [Delivered(ws, c, "error") EXCEPT !.conn[c].pc = "closing"]
                   ELSE Cleanup(ws, c)
    /\ UNCHANGED <<fc, pg, ag, wf, ep, tl, st, fl, cp, cf, tr, gs>>

\* await send({"type": "websocket.close", "code": 1008, ...}); return
WsCloseSent ==
    /\ \E c \in Conns : \E ok \in BOOLEAN :
          /\ ws.conn[c].pc = "closing"
          /\ ws' = IF ok THEN Cleanup(Delivered(ws, c, "close 1008"), c)
                   ELSE Cleanup(ws, c)
    /\ UNCHANGED <<fc, pg, ag, wf, ep, tl, st, fl, cp, cf, tr, gs>>

\* await send({"type": "connection_successful", ...}) answers or raises
WsConfirmSent ==
    /\ \E c \in Conns : \E ok \in BOOLEAN :
          /\ ws.conn[c].pc = "confirming"
          /\ ws' = IF ok
                   THEN [Delivered(ws, c, "connection_successful") EXCEPT !.conn[c].pc = "loop"]
                   ELSE Cleanup(ws, c)
    /\ UNCHANGED <<fc, pg, ag, wf, ep, tl, st, fl, cp, cf, tr, gs>>

\* message = await receive(): a disconnect, a client message, or an exception
WsReceive ==
    /\ \E c \in Conns : \E message \in {"websocket.disconnect", "websocket.receive", "raised"} :
          /\ ws.conn[c].pc = "loop"
          /\ IF message = "websocket.receive"
             THEN /\ ws.conn[c].reads < MaxReads
                  /\ ws' = [ws EXCEPT !.conn[c].pc = "responding", !.conn[c].reads = @ + 1]
             ELSE ws' = Cleanup(ws, c)
    /\ UNCHANGED <<fc, pg, ag, wf, ep, tl, st, fl, cp, cf, tr, gs>>

\* await send({"type": "response", ...}) answers or raises
WsResponseSent ==
    /\ \E c \in Conns : \E ok \in BOOLEAN :
          /\ ws.conn[c].pc = "responding"
          /\ ws' = IF ok
                   THEN [Delivered(ws, c, "response") EXCEPT !.conn[c].pc = "loop"]
                   ELSE Cleanup(ws, c)
    /\ UNCHANGED <<fc, pg, ag, wf, ep, tl, st, fl, cp, cf, tr, gs>>

\* the next step of for ... in self.active_connections.items(): RuntimeError when
\* the dict changed size, or when an entry turns up after all were handed out;
\* else the next live entry, whose send is awaited; else the loop ends
BcAdvance(w) ==
    LET ahead == {i \in DOMAIN w.slots : i >= w.bc.pos /\ i \in LiveSlots(w.slots)}
        i == CHOOSE j \in ahead : \A k \in ahead : j <= k
    IN  IF DictLen(w.slots) # w.bc.used THEN [w EXCEPT !.bc.pc = "raised"]
        ELSE IF ahead = {} THEN [w EXCEPT !.bc.pc = "done"]
        ELSE IF w.bc.left = 0 THEN [w EXCEPT !.bc.pc = "raised"]
        ELSE [w EXCEPT !.bc.pc = "sending", !.bc.pos = i + 1, !.bc.left = @ - 1,
                       !.bc.target = w.slots[i].conn,
                       !.bc.tried = @ \cup {w.slots[i].conn}]

\* broadcast_message is called
BcCall ==
    /\ ws.bc.pc = "idle"
    /\ ws' = IF DictLen(ws.slots) = 0 THEN [ws EXCEPT !.bc.pc = "done"]
             ELSE BcAdvance([ws EXCEPT
                     !.bc.used = DictLen(ws.slots), !.bc.left = DictLen(ws.slots),
                     !.bc.pos = 1,
                     !.bc.due = {ws.slots[i].conn : i \in LiveSlots(ws.slots)}])
    /\ UNCHANGED <<fc, pg, ag, wf, ep, tl, st, fl, cp, cf, tr, gs>>

\* await send(...) of the broadcast answers or raises (except Exception: log)
BcSent ==
    /\ ws.bc.pc = "sending"
    /\ \E ok \in BOOLEAN :
          ws' = BcAdvance([ws EXCEPT !.bc.failed = IF ok THEN @ ELSE @ \cup {ws.bc.target}])
    /\ UNCHANGED <<fc, pg, ag, wf, ep, tl, st, fl, cp, cf, tr, gs>>

(***************************************************************************)
(* /generate-issue-solution: generate_issue_solution_endpoint.  One step   *)
(* of the model is one step of the workflow, its tool call answering or    *)
(* raising.  gs.steps is steps_results, gs.error and gs.final_diff the     *)
(* fields of the response ("unset" for a field left out), gs.tree the      *)
(* paths of the file tree and gs.files the paths identified for change.    *)
(***************************************************************************)
Paths == 1..NumPaths

StepOrder ==
    <<"Get Repository File Tree", "Identify Files to Change", "Get File Content",
      "Generate Git Diffs">>

GsIdle ==
    [pc |-> "idle", steps |-> <<>>, error |-> FALSE, final_diff |-> "unset",
     tree |-> {}, files |-> {}]

GsStart == [GsIdle EXCEPT !.pc = "tree"]

\* add_step_result(name, status, ...)
add_step_result(g, name, status) ==
    [g EXCEPT !.steps = Append(@, [step_name |-> name, status |-> status])]

\* except Exception: the step is recorded as an error and the handler goes on
StepFailedGoesOn(g, name) == [add_step_result(g, name, "error") EXCEPT !.error = TRUE]

\* except Exception: add_step_result(name, "error", ...); return ...(error=...)
StepFailed(g, name) ==
    [add_step_result(g, name, "error") EXCEPT !.pc = "returned", !.error = TRUE]

\* Step 1: get_file_tree
GsTree ==
    /\ gs.pc = "tree"
    /\ \/ \E tree \in SUBSET Paths :
            gs' = [add_step_result(gs, StepOrder[1], "success") EXCEPT
                      !.pc = "identify", !.tree = tree]
       \/ gs' = StepFailed(gs, StepOrder[1])
    /\ UNCHANGED <<fc, pg, ag, wf, ep, tl, st, fl, cp, cf, tr, ws>>

\* Step 2: get_files_to_change; with no file to change the workflow ends here
GsIdentify ==
    /\ gs.pc = "identify"
    /\ \/ \E files \in SUBSET Paths :
            LET got == [add_step_result(gs, StepOrder[2], "success") EXCEPT !.files = files]
            IN  gs' = IF files = {}
                      THEN [add_step_result(got, "Generate Git Diffs", "skipped") EXCEPT
                               !.pc = "returned", !.final_diff = "No changes needed."]
                      ELSE [got EXCEPT !.pc = "content"]
       \/ gs' = StepFailed(gs, StepOrder[2])
    /\ UNCHANGED <<fc, pg, ag, wf, ep, tl, st, fl, cp, cf, tr, ws>>

\* Step 3: get_files_content
GsContent ==
    /\ gs.pc = "content"
    /\ \/ gs' = [add_step_result(gs, StepOrder[3], "success") EXCEPT !.pc = "diffs"]
       \/ gs' = StepFailed(gs, StepOrder[3])
    /\ UNCHANGED <<fc, pg, ag, wf, ep, tl, st, fl, cp, cf, tr, ws>>

\* Step 4: generate_git_diffs, and the response of a completed workflow
GsDiffs ==
    /\ gs.pc = "diffs"
    /\ \/ gs' = [add_step_result(gs, StepOrder[4], "success") EXCEPT
                    !.pc = "returned", !.final_diff = "diff"]
       \/ gs' = StepFailed(gs, StepOrder[4])
    /\ UNCHANGED <<fc, pg, ag, wf, ep, tl, st, fl, cp, cf, tr, ws>>

InitFetch ==
    /\ \E c \in Clients, t \in 0..MaxNow : fc = FcStart(c, t)
    /\ pg = PgIdle
    /\ ag = AgIdle
    /\ wf = WfIdle /\ ep = EpIdle /\ tl = TlIdle /\ st = StIdle
    /\ fl = FlIdle
    /\ cp = CpIdle
    /\ cf = CfIdle
    /\ tr = TrIdle
    /\ ws = WsIdle
    /\ gs = GsIdle

NextFetch == FcRequest \/ FcSleep

SpecFetch == InitFetch /\ [][NextFetch]_vars

InitPage ==
    /\ fc = FcIdle
    /\ \E k \in Paginators : pg = PgStart(k)
    /\ ag = AgIdle
    /\ wf = WfIdle /\ ep = EpIdle /\ tl = TlIdle /\ st = StIdle
    /\ fl = FlIdle
    /\ cp = CpIdle
    /\ cf = CfIdle
    /\ tr = TrIdle
    /\ ws = WsIdle
    /\ gs = GsIdle

NextPage == PgSearch \/ PgAllPaginated \/ PgContributors \/ PgCommits \/ PgIssues

SpecPage == InitPage /\ [][NextPage]_vars

InitAgg ==
    /\ fc = FcIdle
    /\ pg = PgIdle
    /\ \E w \in Windows : ag = AgStart(w)
    /\ wf = WfIdle /\ ep = EpIdle /\ tl = TlIdle /\ st = StIdle
    /\ fl = FlIdle
    /\ cp = CpIdle
    /\ cf = CfIdle
    /\ tr = TrIdle
    /\ ws = WsIdle
    /\ gs = GsIdle

NextAgg ==
    \/ AgCommits
    \/ AgCommitDetail
    \/ AgSearch
    \/ AgReviews
    \/ AgReviewComments
    \/ AgIssueComments
    \/ AgEvents

SpecAgg == InitAgg /\ [][NextAgg]_vars

InitWindow ==
    /\ fc = FcIdle /\ pg = PgIdle /\ ag = AgIdle
    /\ \E s, e \in 1..MaxDay : wf = WfStart(s, e)
    /\ ep = EpIdle /\ tl = TlIdle /\ st = StIdle
    /\ fl = FlIdle
    /\ cp = CpIdle
    /\ cf = CfIdle
    /\ tr = TrIdle
    /\ ws = WsIdle
    /\ gs = GsIdle

NextWindow == WfFilter

SpecWindow == InitWindow /\ [][NextWindow]_vars

InitEntry ==
    /\ fc = FcIdle /\ pg = PgIdle /\ ag = AgIdle /\ wf = WfIdle
    /\ \E op \in Tools \cup Endpoints, token \in BOOLEAN, s, e \in Dates :
          /\ op \notin DateWindowed => (s = EpIdle.start /\ e = EpIdle.end)
          /\ ep = EpStart(op, token, s, e)
    /\ tl = TlIdle /\ st = StIdle
    /\ fl = FlIdle
    /\ cp = CpIdle
    /\ cf = CfIdle
    /\ tr = TrIdle
    /\ ws = WsIdle
    /\ gs = GsIdle

NextEntry == EpCheck \/ EpRequest

SpecEntry == InitEntry /\ [][NextEntry]_vars

InitBins ==
    /\ fc = FcIdle /\ pg = PgIdle /\ ag = AgIdle /\ wf = WfIdle /\ ep = EpIdle
    /\ \E period \in Periods, now \in FirstToday..(FirstToday + MaxShift) :
          tl = TlStart(period, now)
    /\ st = StIdle
    /\ fl = FlIdle
    /\ cp = CpIdle
    /\ cf = CfIdle
    /\ tr = TrIdle
    /\ ws = WsIdle
    /\ gs = GsIdle

NextBins == TlBuildBins \/ TlEvent \/ TlEndLoop

SpecBins == InitBins /\ [][NextBins]_vars

InitStats ==
    /\ fc = FcIdle /\ pg = PgIdle /\ ag = AgIdle /\ wf = WfIdle /\ ep = EpIdle
    /\ tl = TlIdle
    /\ \E current, previous \in 0..MaxCount : st = StStart(current, previous)
    /\ fl = FlIdle
    /\ cp = CpIdle
    /\ cf = CfIdle
    /\ tr = TrIdle
    /\ ws = WsIdle
    /\ gs = GsIdle

NextStats == StChange

SpecStats == InitStats /\ [][NextStats]_vars

InitFlight ==
    /\ fc = FcIdle /\ pg = PgIdle /\ ag = AgIdle /\ wf = WfIdle /\ ep = EpIdle
    /\ tl = TlIdle /\ st = StIdle
    /\ \E n \in 0..MaxPrs : fl = FlStart(n)
    /\ cp = CpIdle
    /\ cf = CfIdle
    /\ tr = TrIdle
    /\ ws = WsIdle
    /\ gs = GsIdle

NextFlight == FlSend \/ FlReceive

SpecFlight == InitFlight /\ [][NextFlight]_vars

InitCursor ==
    /\ fc = FcIdle /\ pg = PgIdle /\ ag = AgIdle /\ wf = WfIdle /\ ep = EpIdle
    /\ tl = TlIdle /\ st = StIdle /\ fl = FlIdle
    /\ \E loop \in CursorLoops : cp = CpStart(loop)
    /\ cf = CfIdle
    /\ tr = TrIdle
    /\ ws = WsIdle
    /\ gs = GsIdle

NextCursor == CpCommitCount \/ CpContributorStats \/ CpTeamActivity

SpecCursor == InitCursor /\ [][NextCursor]_vars

InitCache ==
    /\ fc = FcIdle /\ pg = PgIdle /\ ag = AgIdle /\ wf = WfIdle /\ ep = EpIdle
    /\ tl = TlIdle /\ st = StIdle /\ fl = FlIdle /\ cp = CpIdle
    /\ cf = CfStart
    /\ tr = TrIdle
    /\ ws = WsIdle
    /\ gs = GsIdle

NextCache == CfSave \/ CfLoad \/ CfTick

SpecCache == InitCache /\ [][NextCache]_vars

InitRange ==
    /\ fc = FcIdle /\ pg = PgIdle /\ ag = AgIdle /\ wf = WfIdle /\ ep = EpIdle
    /\ tl = TlIdle /\ st = StIdle /\ fl = FlIdle /\ cp = CpIdle /\ cf = CfIdle
    /\ \E now \in Calendar : \E period \in Ranges :
          /\ now.year \in FirstYear..(FirstYear + NumYears - 1)
          /\ tr = TrStart(now, period)
    /\ ws = WsIdle
    /\ gs = GsIdle

NextRange == TrMidnight \/ TrCurrent \/ TrPrevious

SpecRange == InitRange /\ [][NextRange]_vars

InitSocket ==
    /\ fc = FcIdle /\ pg = PgIdle /\ ag = AgIdle /\ wf = WfIdle /\ ep = EpIdle
    /\ tl = TlIdle /\ st = StIdle /\ fl = FlIdle /\ cp = CpIdle /\ cf = CfIdle
    /\ tr = TrIdle
    /\ ws = WsStart
    /\ gs = GsIdle

NextSocket ==
    \/ WsOpen \/ WsRejectSent \/ WsCloseSent \/ WsConfirmSent \/ WsReceive
    \/ WsResponseSent \/ BcCall \/ BcSent

SpecSocket == InitSocket /\ [][NextSocket]_vars

InitSolution ==
    /\ fc = FcIdle /\ pg = PgIdle /\ ag = AgIdle /\ wf = WfIdle /\ ep = EpIdle
    /\ tl = TlIdle /\ st = StIdle /\ fl = FlIdle /\ cp = CpIdle /\ cf = CfIdle
    /\ tr = TrIdle /\ ws = WsIdle
    /\ gs = GsStart

NextSolution == GsTree \/ GsIdentify \/ GsContent \/ GsDiffs

SpecSolution == InitSolution /\ [][NextSolution]_vars

(***************************************************************************)
(* Claims about the fetch clients (SpecFetch)                              *)
(***************************************************************************)
IsRateLimit(o) == o.kind = "http" /\ o.status = 403 /\ o.hasReset

FailedAttempts(f) == Cardinality({i \in 1..Len(f.outs) : IsRequestException(f.outs[i])})

\* C1: whatever the failures are (4xx/5xx, 403 with or without a reset header,
\* network errors), one call issues at most MAX_RETRIES = 3 requests; every
\* failed attempt, rate-limited or not, uses up one of them; the call is still
\* running only while fewer than 3 requests were issued; and it raises exactly
\* when the third request failed, the error raised being that last failure.
C1_RetryCeiling ==
    /\ fc.requests <= MAX_RETRIES
    /\ fc.requests = Len(fc.outs)
    /\ fc.retries = FailedAttempts(fc)
    /\ fc.pc \in {"try", "sleep"} => fc.requests < MAX_RETRIES
    /\ fc.pc = "raised" <=>
          (fc.requests = MAX_RETRIES /\ IsRequestException(LastOutcome(fc)))
    /\ fc.pc = "raised" => \A i \in 1..MAX_RETRIES : IsRequestException(fc.outs[i])

C1_Witness ==
    /\ fc.pc = "raised"
    /\ fc.requests = 3
    /\ IsRateLimit(fc.outs[1])
    /\ fc.outs[2] = NetOutcome
    /\ fc.outs[3].status = 500

\* the state of _make_github_api_request asleep after a 403 that carried a reset
RateLimited(f) ==
    /\ f.client = "activity"
    /\ f.pc = "sleep"
    /\ IsRateLimit(LastOutcome(f))

\* the state right after that sleep: no request issued yet since it ended
AfterRateLimitSleep(f) ==
    /\ f.client = "activity"
    /\ f.pc = "try"
    /\ f.outs # <<>>
    /\ IsRateLimit(LastOutcome(f))

\* C2: after a 403 with reset timestamp R below the ceiling, the client sleeps
\* max(0, R - now) + buffer seconds (never negative, at least R - now) without
\* issuing a request, the next request is therefore issued at or after R, exactly
\* one request follows the sleep, and a 200 answer to it is returned.
C2_RateLimitSleep ==
    [][ /\ RateLimited(fc) =>
            LET R == LastOutcome(fc).reset
                w == IF R > fc.stamp THEN (R - fc.stamp) + 5 ELSE 5
            IN  /\ fc.stamp = fc.now
                /\ fc.wait = w
                /\ fc.wait >= 0
                /\ fc.wait >= R - fc.stamp
                /\ fc'.pc = "try"
                /\ fc'.requests = fc.requests
                /\ fc'.now = fc.now + w
                /\ fc'.now >= R
                /\ fc'.slept = Append(fc.slept, w)
        /\ AfterRateLimitSleep(fc) =>
                /\ fc'.requests = fc.requests + 1
                /\ fc'.pc # "try"
                /\ LastOutcome(fc') = OkOutcome => fc'.pc = "returned"
      ]_vars

\* a 403 whose reset lies 2 seconds ahead, one sleep of 2 + 5 seconds, one retry, 200
C2_Witness ==
    /\ fc.client = "activity"
    /\ fc.pc = "returned"
    /\ fc.requests = 2
    /\ IsRateLimit(fc.outs[1])
    /\ fc.outs[2] = OkOutcome
    /\ fc.slept = <<7>>

\* C3: the sleep after the k-th failed attempt (k = 1, 2), when that attempt
\* failed with a network error, lasts exactly RETRY_DELAY * k = 5k seconds, and
\* no sleep follows the final failed attempt: a call that raised slept twice.
C3_LinearBackoff ==
    /\ \A k \in 1..Len(fc.slept) :
          fc.outs[k] = NetOutcome => fc.slept[k] = 5 * k
    /\ (fc.pc = "sleep" /\ LastOutcome(fc) = NetOutcome) =>
          /\ fc.retries = Len(fc.outs)
          /\ fc.retries \in {1, 2}
          /\ fc.wait = 5 * fc.retries
          /\ Len(fc.slept) = fc.retries - 1
    /\ fc.pc = "raised" => Len(fc.slept) = MAX_RETRIES - 1
    /\ fc.pc \in {"raised", "returned"} => Len(fc.slept) = Len(fc.outs) - 1

C3_Witness ==
    /\ fc.pc = "raised"
    /\ \A i \in 1..3 : fc.outs[i] = NetOutcome
    /\ fc.slept = <<5, 10>>


(***************************************************************************)
(* Claims about the paginators (SpecPage)                                  *)
(***************************************************************************)
RECURSIVE Flatten(_)
Flatten(pages) == IF pages = <<>> THEN <<>> ELSE Head(pages) \o Flatten(Tail(pages))

\* C4: while no request fails, page k+1 is requested only after k full pages, so
\* a source answering n full pages and then a partial (possibly empty or
\* non-empty) page is asked for exactly n + 1 pages, never for page n + 2, and
\* the paginator returns the concatenation of the n + 1 pages in page order.
C4_PaginatorConcat ==
    (pg.pc # "idle" /\ ~pg.failed) =>
        /\ pg.pc # "raised"
        /\ pg.requests = Len(pg.served)
        /\ \A i \in 1..(Len(pg.served) - 1) : Len(pg.served[i]) = PerPage
        /\ pg.pc = "fetch" =>
              /\ \A i \in 1..Len(pg.served) : Len(pg.served[i]) = PerPage
              /\ pg.page = Len(pg.served) + 1
              /\ pg.results = Flatten(pg.served)
        /\ pg.pc = "returned" =>
              /\ pg.served # <<>>
              /\ Len(pg.served[Len(pg.served)]) < PerPage
              /\ pg.results = Flatten(pg.served)

\* three full pages, then a non-empty partial page, through _search_github_paginated
C4_Witness ==
    /\ pg.kind = "search"
    /\ pg.pc = "returned"
    /\ ~pg.failed
    /\ pg.requests = 4
    /\ Len(pg.served) = 4
    /\ Len(pg.served[4]) = PerPage - 1
    /\ Len(pg.results) = 4 * PerPage - 1

\* C5: when the fetch of a page fails for good (the fetch client raised, or the
\* bare request did not answer 200), the paginator does not return normally with
\* the items collected so far: the error reaches its caller.
C5_ErrorPropagates == pg.failed => pg.pc = "raised"

(***************************************************************************)
(* Claims about fetch_contributor_activity (SpecAgg)                       *)
(***************************************************************************)
TopLevelCalls == {"commits", "authored", "reviewed", "commenter", "created", "closed"}

SubFetchCalls == {"commit_detail", "reviews", "review_comments", "issue_comments", "events"}

\* C6: when the fetch of the commit list, of the authored-PR search, of the
\* reviewed-by or commenter search or of an issue search has failed after its
\* retries, the aggregation ends with an error raised to its caller: it neither
\* goes on nor returns a report with that category empty or truncated.
C6_TopLevelFailureSurfaces ==
    (ag.last.call \in TopLevelCalls /\ ~ag.last.ok) => ag.pc = "raised"

\* the state a step from a would reach had the source answered with nothing:
\* an empty page, or a commit detail without stats and files
AnsweredEmpty(a) ==
    CASE a.pc = "commit_detail" ->
            CommitDetailGot(a, NoDetail)
      [] a.pc = "reviews" -> ReviewsGot(a, <<>>)
      [] a.pc = "review_comments" -> ReviewCommentsGot(a, <<>>)
      [] a.pc = "issue_comments" -> IssueCommentsGot(a, <<>>)
      [] a.pc = "events" -> EventsGot(a, <<>>)

HasActivity(entry, type) ==
    \E i \in 1..Len(entry.activities) : entry.activities[i].type = type

Numbers(q) == {q[i].number : i \in 1..Len(q)}

Distinct(q) == \A i, j \in 1..Len(q) : q[i] = q[j] => i = j

PrNumbers(q) == [i \in 1..Len(q) |-> q[i].pr_number]

ItemNumbers(q) == [i \in 1..Len(q) |-> q[i].number]

Merged(a) ==
    a.pc \in {"reviews", "review_comments", "issue_comments", "created", "closed",
              "events", "done"}

\* C8: once the reviewed-by and commenter results are merged, every PR number of
\* either result is the number of exactly one item of the merged set, the merged
\* set holds no other number, and no PR number occurs twice in
\* reviews_and_review_comments or in general_pr_comments.
C8_MergedPrSetDeduplicated ==
    /\ Merged(ag) =>
          /\ Numbers(ag.involved_pr_items) =
                Numbers(ag.reviewed_pr_items) \cup Numbers(ag.commenter_pr_items)
          /\ Distinct(ItemNumbers(ag.involved_pr_items))
    /\ Distinct(PrNumbers(ag.reviews_and_review_comments))
    /\ Distinct(PrNumbers(ag.general_pr_comments))

\* one PR found by both queries, listed once with the user's review
C8_Witness ==
    /\ ag.pc = "done"
    /\ Len(ag.reviewed_pr_items) = 1
    /\ Len(ag.commenter_pr_items) = 1
    /\ Numbers(ag.reviewed_pr_items) = Numbers(ag.commenter_pr_items)
    /\ Len(ag.involved_pr_items) = 1
    /\ Len(ag.reviews_and_review_comments) = 1

\* C9: no two entries of commits share a sha, and no two entries of
\* authored_prs, of created_issues or of closed_issues_by_user share a number.
C9_ListsDeduplicated ==
    /\ Distinct([i \in 1..Len(ag.commits) |-> ag.commits[i].sha])
    /\ Distinct(ItemNumbers(ag.authored_prs))
    /\ Distinct(ItemNumbers(ag.created_issues))
    /\ Distinct(ItemNumbers(ag.closed_issues_by_user))

\* C10: every entry of reviews_and_review_comments has a non-empty activities
\* list and every entry of general_pr_comments a non-empty comments list: a PR
\* none of whose activities passed the actor and window filter has no entry.
C10_NoEmptyEntries ==
    /\ \A i \in 1..Len(ag.reviews_and_review_comments) :
          ag.reviews_and_review_comments[i].activities # <<>>
    /\ \A i \in 1..Len(ag.general_pr_comments) :
          ag.general_pr_comments[i].comments # <<>>
    /\ Len(ag.reviews_and_review_comments) <= Len(ag.involved_pr_items)
    /\ Len(ag.general_pr_comments) <= Len(ag.involved_pr_items)

\* two PRs in the merged set, one with a surviving activity and one without
C10_Witness ==
    /\ ag.pc = "done"
    /\ Len(ag.involved_pr_items) = 2
    /\ Len(ag.reviews_and_review_comments) = 1
    /\ ag.general_pr_comments = <<>>

(***************************************************************************)
(* Claims about the window (SpecAgg)                                       *)
(***************************************************************************)
\* the instants from 00:00:00 of the start date to 23:59:59 of the end date
InWindow(a, at) == 2 * a.start_day <= at /\ at <= 2 * a.end_day + 1

\* the reviews and review comments, and the general comments, of the report
ReportedActivities(a) ==
    UNION {Range(a.reviews_and_review_comments[i].activities) :
              i \in 1..Len(a.reviews_and_review_comments)}

ReportedComments(a) ==
    UNION {Range(a.general_pr_comments[i].comments) :
              i \in 1..Len(a.general_pr_comments)}

\* C11: every review, review comment and general comment of the report was
\* made by the requested user at an instant inside the window, not before
\* 00:00:00 of the start date and not after 23:59:59 of the end date, whatever
\* items the per-PR endpoints list.
C11_ActivitiesByUserInWindow ==
    \A x \in ReportedActivities(ag) \cup ReportedComments(ag) :
        x.user = "me" /\ InWindow(ag, x.at)

(***************************************************************************)
(* Claims about the actor and window tests (SpecWindow)                    *)
(***************************************************************************)
\* the item is one the requested user made (for an event: a close by the user)
ByUser(f) ==
    /\ f.item.user = "me"
    /\ f.kind = "closed_event" => f.item.event = "closed"

\* C12: the window start..end (start <= end) is a closed interval on dates: an
\* event by the user is kept when its timestamp is anywhere from 00:00:00 of the
\* start date to 23:59:59 of the end date, and dropped when it is on the day
\* before the start date or the day after the end date.
C12_ClosedIntervalOnDates ==
    (wf.pc = "filtered" /\ wf.start_day <= wf.end_day /\ ByUser(wf)) =>
        (wf.kept <=> InWindow(wf, wf.item.at))

(***************************************************************************)
(* Claims about the entry checks (SpecEntry)                               *)
(***************************************************************************)
\* fetch_contributor_activity, the paginating list tools, the /repo/* handlers
NeedToken ==
    Tools \cup {"get_repo_stats", "get_top_contributors_stats", "get_team_activity",
                "get_recent_activity", "get_builds"}

\* C13: with no GitHub token configured, fetch_contributor_activity, the
\* paginating list tools and every /repo/* handler (stats, contributor-stats,
\* team-activity, recent-activity, builds) issue no outbound HTTP request, and
\* the error they end with is the configuration error.
C13_NoTokenNoRequest ==
    (ep.op \in NeedToken /\ ~ep.token) =>
        /\ ep.requests = 0
        /\ ep.pc # "requested"
        /\ ep.pc = "rejected" => ep.error = "configuration"

\* start > end, or one of the two strings is not a date
BadWindow(e) ==
    \/ ~Parses(e.start)
    \/ ~Parses(e.end)
    \/ e.start.day > e.end.day

\* C14: through /contributor-activity/ and /repository-issues/ (token set), a
\* window with start > end or with a malformed date string is rejected with a
\* validation error before any outbound HTTP request; a window with
\* start <= end, start = end included, is not rejected.
C14_WindowValidated ==
    (ep.op \in {"get_contributor_activity_endpoint", "list_repository_issues_endpoint"}
        /\ ep.token) =>
        /\ BadWindow(ep) =>
              /\ ep.requests = 0
              /\ ep.pc # "requested"
              /\ ep.pc = "rejected" => ep.error = "validation"
        /\ ~BadWindow(ep) => ep.pc # "rejected"

(***************************************************************************)
(* Claims about the closed issues and the commit totals (SpecAgg)          *)
(***************************************************************************)
\* the candidates whose events loop is over
Examined(a) ==
    IF a.pc = "done" THEN Len(a.potentially_closed_items)
    ELSE IF a.pc = "events" THEN a.idx - 1
    ELSE 0

\* the first n candidates, those of them with evidence, in the order of the search
RECURSIVE WithEvidence(_, _)
WithEvidence(a, n) ==
    IF n = 0 THEN <<>>
    ELSE WithEvidence(a, n - 1)
         \o (IF n \in a.evidence
             THEN <<[number |-> a.potentially_closed_items[n].number]>> ELSE <<>>)

\* C15: closed_issues_by_user lists a candidate of the closed-in-window search
\* if and only if the events fetched for it contain a "closed" event by the
\* requested user with a timestamp in the window; an issue closed by somebody
\* else, or by the user outside the window, is not listed.
C15_ClosedIssuesByUser ==
    ag.closed_issues_by_user = WithEvidence(ag, Examined(ag))

\* two candidates were examined: events were fetched for both, the second is listed
C15_Witness ==
    /\ ag.pc = "done"
    /\ Len(ag.potentially_closed_items) = 2
    /\ ag.last = [call |-> "events", key |-> ag.potentially_closed_items[2].number, ok |-> TRUE]
    /\ ag.left = 0
    /\ ag.evidence = {2}
    /\ Len(ag.closed_issues_by_user) = 1

\* the commits loop is over: the report's commit fields are set
CommitsReported(a) == a.pc \notin {"idle", "commits", "commit_detail"}

RECURSIVE SumLines(_)
SumLines(entries) ==
    IF entries = <<>> THEN 0
    ELSE Head(entries).additions + Head(entries).deletions + SumLines(Tail(entries))

\* C16: in the report, total_commits is the number of entries of commits and
\* total_lines_changed is the sum of additions + deletions over those entries,
\* also when some commit-detail fetches failed (their entries carry 0 and 0).
C16_CommitTotals ==
    CommitsReported(ag) =>
        /\ ag.total_commits = Len(ag.commits)
        /\ ag.total_lines_changed = SumLines(ag.commits)

\* a full page of commits and one more: the detail of the first was fetched, the
\* detail of the last one failed
C16_Witness ==
    /\ ag.pc = "authored"
    /\ ag.total_commits = PerPage + 1
    /\ Len(ag.commits) = PerPage + 1
    /\ ag.last = [call |-> "commit_detail", key |-> ag.commits[PerPage + 1].sha, ok |-> FALSE]
    /\ ag.commits[1].additions = MaxLines /\ ag.commits[1].deletions = MaxLines
    /\ ag.total_lines_changed = 2 * MaxLines

\* C17: in the report, unique_files_changed_in_commits holds exactly the paths
\* of the changed_files lists of the entries of commits, each once, in sorted
\* order.
C17_UniqueFiles ==
    CommitsReported(ag) =>
        LET u == ag.unique_files_changed_in_commits
        IN  /\ Range(u) = UNION {Range(ag.commits[i].changed_files) : i \in 1..Len(ag.commits)}
            /\ \A i, j \in 1..Len(u) : i < j => u[i] < u[j]

\* two commits that both changed file 1, one of them file 2 as well, listed after file 1
C17_Witness ==
    /\ CommitsReported(ag)
    /\ Len(ag.commits) = 2
    /\ ag.commits[1].changed_files = <<2, 1>>
    /\ ag.commits[2].changed_files = <<1>>
    /\ ag.unique_files_changed_in_commits = <<1, 2>>

(***************************************************************************)
(* Claims about the timeline bins (SpecBins)                               *)
(***************************************************************************)
BinCount(period) ==
    CASE period = "week" -> 7 [] period = "month" -> 4 [] period = "quarter" -> 12

BinSpacing(period) == IF period = "week" THEN 1 ELSE 7

\* C18: the bins of week, month and quarter are exactly 7, 4 and 12 dates in
\* strictly increasing order, a constant 1, 7 and 7 days apart, and the last
\* bin is today's date; for week they are the 7 consecutive dates ending today.
C18_BinsOfPeriod ==
    tl.pc \notin {"idle", "bins"} =>
        /\ Len(tl.bins) = BinCount(tl.period)
        /\ \A i \in 1..(Len(tl.bins) - 1) :
              tl.bins[i + 1] - tl.bins[i] = BinSpacing(tl.period)
        /\ tl.bins[Len(tl.bins)] = tl.now
        /\ tl.period = "week" => Range(tl.bins) = (tl.now - 6)..tl.now

\* the bins of a quarter were built: twelve of them, the first 77 days ago
C18_Witness ==
    /\ tl.pc = "commits"
    /\ tl.period = "quarter"
    /\ Len(tl.bins) = 12
    /\ tl.bins[1] = tl.now - 77

\* the sum of one metric's counters over the bins
RECURSIVE SumOver(_, _, _)
SumOver(activity, labels, m) ==
    IF labels = {} THEN 0
    ELSE LET l == CHOOSE x \in labels : TRUE
         IN  activity[l][m] + SumOver(activity, labels \ {l}, m)

BinTotal(t, m) == SumOver(t.activity, DOMAIN t.activity, m)

\* the starts of the bins that are not after the date
StartsUpTo(t, date) == {d \in Range(t.bins) : d <= date}

\* C19: an event is given the label of the latest bin whose start date is <=
\* the date of its timestamp, and no label exactly when it is older than the
\* earliest bin; so it is counted in at most one bin, and the counters of a
\* metric add up to the number of its events dated on or after the earliest bin.
C19_AssignToBin ==
    /\ tl.events > 0 =>
          LET date == DateOf(tl.last.ts)
          IN  /\ tl.last.bin = None <=> date < tl.bins[1]
              /\ tl.last.bin # None =>
                    /\ tl.last.bin.ymd \in StartsUpTo(tl, date)
                    /\ \A d \in StartsUpTo(tl, date) : d <= tl.last.bin.ymd
    /\ tl.pc \notin {"idle", "bins"} => \A m \in Metrics : BinTotal(tl, m) = tl.dated[m]

\* a review of the last second of the day before the second weekly bin went to
\* the first bin, after a commit older than every bin was dropped
C19_Witness ==
    /\ tl.period = "month"
    /\ tl.pc = "reviews"
    /\ tl.events = 2
    /\ tl.last = [ts |-> 2 * (tl.bins[2] - 1) + 1, bin |-> bin_label(tl.bins[1])]
    /\ tl.activity[bin_label(tl.bins[1])]["reviews"] = 1
    /\ tl.dated["commits"] = 0
    /\ \A l \in DOMAIN tl.activity : tl.activity[l]["commits"] = 0

(***************************************************************************)
(* Claims about percentage_change (SpecStats)                              *)
(***************************************************************************)
\* the number a digit character stands for
DigitValue(ch) == CHOOSE d \in 0..9 : DigitChars[d + 1] = ch

IsDigit(ch) == \E d \in 0..9 : DigitChars[d + 1] = ch

\* the number a sequence of digit characters stands for
RECURSIVE NumberOf(_)
NumberOf(chars) ==
    IF chars = <<>> THEN 0
    ELSE 10 * NumberOf(SubSeq(chars, 1, Len(chars) - 1)) + DigitValue(chars[Len(chars)])

\* out is digits, ".", one digit, "%", after a "-" when negative; the number
\* written, in tenths, is within half a tenth of 1000 * (current - previous) / previous
OneDecimalOf(out, current, previous) ==
    LET negative == current < previous
        body == IF negative THEN Tail(out) ELSE out
        n == Len(body)
    IN  /\ negative <=> (out # <<>> /\ Head(out) = "-")
        /\ n >= 4
        /\ body[n] = "%"
        /\ body[n - 2] = "."
        /\ \A i \in (1..(n - 3)) \cup {n - 1} : IsDigit(body[i])
        /\ LET tenths == 10 * NumberOf(SubSeq(body, 1, n - 3)) + DigitValue(body[n - 1])
               exact == 1000 * (IF negative THEN previous - current ELSE current - previous)
           IN  2 * (tenths * previous - exact) <= previous
                   /\ 2 * (exact - tenths * previous) <= previous

\* C20: for non-negative counts, percentage_change is "+inf%" when previous = 0
\* and current > 0, "0%" when both are 0, and otherwise
\* (current - previous) / previous * 100 written with one decimal place and a
\* trailing "%", negative when current < previous; with previous = 0 nothing
\* is divided.  percentage_change(3, 2) is "50.0%", as is (150, 100).
C20_PercentChange ==
    st.pc = "returned" =>
        /\ (st.previous = 0 /\ st.current > 0) => st.out = <<"+", "inf", "%">>
        /\ (st.previous = 0 /\ st.current = 0) => st.out = <<"0", "%">>
        /\ st.previous # 0 => OneDecimalOf(st.out, st.current, st.previous)
        /\ (st.current = 3 /\ st.previous = 2) => st.out = <<"5", "0", ".", "0", "%">>

\* a third of the previous count: -66.666... is written -66.7
C20_Witness ==
    /\ st.pc = "returned"
    /\ st.current = 1
    /\ st.previous = 3
    /\ st.out = <<"-", "6", "6", ".", "7", "%">>

(***************************************************************************)
(* Claims about the calls in flight (SpecFlight)                           *)
(***************************************************************************)
\* C21: during one aggregation never more than 10 outbound API calls are in
\* flight at once, and a PR's entry is merged into the report only after the
\* sub-fetches it depends on, its reviews and its review comments, are over.
C21_BoundedInFlight ==
    /\ fl.inflight <= 10
    /\ \A pr \in fl.report : \A kind \in SubFetches : <<pr, kind>> \in fl.completed
    /\ fl.pc = "done" => fl.inflight = 0

\* the first PR is in the report and a request for the second one is in flight
C21_Witness ==
    /\ fl.pc = "wait"
    /\ fl.inflight = 1
    /\ fl.idx = 2
    /\ 1 \in fl.report

(***************************************************************************)
(* Claims about the cursor loops (SpecCursor)                              *)
(***************************************************************************)
\* C22: in the cursor loops the first request goes to the commits URL with
\* the query parameters; request N+1 is made only when response N was good
\* and carried a "next" link, goes to exactly that link's URL and passes no
\* query parameters; and the loop ends at the first response without a link.
C22_CursorIsSoleInput ==
    /\ Len(cp.sent) >= 1 => cp.sent[1] = [url |-> 0, params |-> TRUE]
    /\ \A i \in 2..Len(cp.sent) :
          /\ cp.got[i - 1].ok /\ cp.got[i - 1].next # 0
          /\ cp.sent[i] = [url |-> cp.got[i - 1].next, params |-> FALSE]
    /\ (cp.pc = "loop" /\ Len(cp.got) >= 1) =>
          (cp.got[Len(cp.got)].ok /\ cp.got[Len(cp.got)].next # 0)
    /\ cp.pc = "returned" => (~cp.got[Len(cp.got)].ok \/ cp.got[Len(cp.got)].next = 0)
    /\ Len(cp.sent) = Len(cp.got)

\* three requests: the links of the first two responses led to URL 2 and then
\* URL 1, the third response had no link
C22_Witness ==
    /\ cp.pc = "returned"
    /\ Len(cp.sent) = 3
    /\ cp.got[1].next = 2 /\ cp.got[2].next = 1
    /\ cp.got[3] = [ok |-> TRUE, next |-> 0]
    /\ cp.sent[3] = [url |-> 1, params |-> FALSE]

(***************************************************************************)
(* More claims about the paginators (SpecPage)                             *)
(***************************************************************************)
OffsetLoops == {"search", "commits", "issues"}

\* C23: the offset loops request the pages 1, 2, 3, ... in this order, none
\* skipped and none twice; and when the items are an exact multiple of the page
\* size (every page before the last one answered is full and the last one is
\* empty) the loop stops at that empty page, returns all the items, and has
\* made exactly one request beyond the last full page.
C23_PagesInOrder ==
    pg.kind \in OffsetLoops =>
        /\ pg.asked = [i \in 1..pg.requests |-> i]
        /\ (pg.pc = "fetch" /\ ~pg.failed) =>
              /\ pg.page = pg.requests + 1
              /\ \A i \in 1..Len(pg.served) : Len(pg.served[i]) = PerPage
        /\ (pg.pc = "returned" /\ ~pg.failed) =>
              /\ pg.served # <<>>
              /\ Len(pg.served[Len(pg.served)]) < PerPage
              /\ pg.served[Len(pg.served)] = <<>> =>
                    /\ Len(pg.results) = (pg.requests - 1) * PerPage
                    /\ pg.results = Flatten(pg.served)

\* get_repo_issues over two full pages: the third page was requested and was empty
C23_Witness ==
    /\ pg.kind = "issues"
    /\ pg.pc = "returned"
    /\ ~pg.failed
    /\ pg.asked = <<1, 2, 3>>
    /\ pg.served[3] = <<>>
    /\ pg.out.kind = "success"
    /\ pg.out.total_issues = 2 * PerPage

\* C30: get_repo_issues ends with a success dictionary whose total_issues is
\* the number of issues of all the pages fetched, or with an error dictionary
\* that has no issues list; a failed request on any page gives the error
\* dictionary, never a partial list and never an exception.
C30_IssuesAllOrError ==
    pg.kind = "issues" =>
        /\ pg.pc # "raised"
        /\ pg.pc = "returned" =>
              \/ /\ pg.out.kind = "success"
                 /\ ~pg.failed
                 /\ pg.out.total_issues = Len(Flatten(pg.served))
                 /\ pg.out.issues = Flatten(pg.served)
              \/ /\ pg.out.kind = "error"
                 /\ pg.failed
                 /\ "issues" \notin DOMAIN pg.out

(***************************************************************************)
(* Claims about the file cache (SpecCache)                                 *)
(***************************************************************************)
StringKeys(d) == \A i \in DOMAIN d : d[i][1].type = "str"

\* what a load leaves alone, and when it returns None
LoadKeepsFile ==
    /\ cf.file = cf.before
    /\ (~cf.file.exists \/ cf.now - cf.file.mtime >= CACHE_TTL_HOURS)
         => cf.result = NoneResult

IsoBefore(a, b) ==
    \/ a[1] < b[1]
    \/ a[1] = b[1] /\ a[2] < b[2]
    \/ a[1] = b[1] /\ a[2] = b[2] /\ a[3] < b[3]

\* C25: for week, month and quarter and every current date, the previous
\* period ends exactly where the current period starts, and both periods start
\* strictly before they end, so that the two periods build_summary compares
\* are adjacent and do not overlap.
C25_AdjacentPeriods ==
    tr.pc = "done" =>
        /\ tr.previous[2] = tr.current[1]
        /\ IsoBefore(tr.current[1], tr.current[2])
        /\ IsoBefore(tr.previous[1], tr.previous[2])

(***************************************************************************)
(* Claims about the WebSocket handler (SpecSocket)                         *)
(***************************************************************************)
HasSubject(token) == token.kind = "valid" /\ token.sub # 0

Opened(c) == ws.conn[c].pc # "new"

\* C26: a connection is stored in active_connections and is sent
\* "connection_successful" or a "response" only if its token passed validation
\* and has a subject; every other connection is sent one error message and
\* then a close with code 1008 (as far as its sends succeed), is never stored,
\* and none of its client messages is read.
C26_OnlyAuthenticated ==
    \A c \in Conns :
        Opened(c) =>
            IF HasSubject(ws.conn[c].token)
            THEN \A i \in DOMAIN ws.conn[c].sent :
                    ws.conn[c].sent[i] \in {"connection_successful", "response"}
            ELSE /\ ~ws.conn[c].stored
                 /\ ws.conn[c].reads = 0
                 /\ \E n \in 0..2 : ws.conn[c].sent = SubSeq(<<"error", "close 1008">>, 1, n)
                 /\ ws.conn[c].pc \in {"rejecting", "closing", "ended"}

InLoop(c) == ws.conn[c].pc \in {"confirming", "loop", "responding"}

UserIds == {ws.conn[c].user_id : c \in {d \in Conns : ws.conn[d].stored}}

\* C27: active_connections has an entry for a user ID exactly while at least
\* one connection authenticated as that user is open (stored and not yet
\* ended), also when two connections of the same user are open at once: the
\* end of one does not remove the entry of another, and after the last one
\* has ended no entry of that user is left.
C27_EntryWhileOpen ==
    \A user_id \in UserIds :
        LiveAt(ws.slots, user_id) # {}
            <=> \E c \in Conns : InLoop(c) /\ ws.conn[c].user_id = user_id

\* C28: broadcast_message ends without raising, connections being stored and
\* removed while it is suspended in a send included, and by then has tried one
\* send to every connection that was stored when it was called, a failed send
\* not keeping it from the others.
C28_BroadcastReachesAll ==
    /\ ws.bc.pc # "raised"
    /\ ws.bc.pc = "done" => ws.bc.due \subseteq ws.bc.tried

(***************************************************************************)
(* Claims about /generate-issue-solution (SpecSolution)                    *)
(***************************************************************************)
StepNames == [i \in DOMAIN gs.steps |-> gs.steps[i].step_name]

IsPrefixOfOrder == StepNames = SubSeq(StepOrder, 1, Len(gs.steps))

\* the steps of a workflow that found no file to change
IsSkippedRun ==
    /\ gs.steps = <<[step_name |-> StepOrder[1], status |-> "success"],
                    [step_name |-> StepOrder[2], status |-> "success"],
                    [step_name |-> StepOrder[4], status |-> "skipped"]>>
    /\ gs.files = {}
    /\ gs.final_diff = "No changes needed."

\* what the claim says besides the order of the steps
StepsWellFormed ==
    /\ \A i, j \in DOMAIN gs.steps : StepNames[i] = StepNames[j] => i = j
    /\ \A i \in DOMAIN gs.steps : i < Len(gs.steps) => gs.steps[i].status = "success"
    /\ gs.pc # "returned" => \A i \in DOMAIN gs.steps : gs.steps[i].status = "success"
    /\ gs.pc = "returned" =>
          /\ gs.steps # <<>>
          /\ gs.error <=> gs.steps[Len(gs.steps)].status = "error"
          /\ gs.final_diff # "unset" =>
                \A i \in DOMAIN gs.steps : gs.steps[i].status # "error"

\* C29 as stated: the recorded steps are a prefix of the fixed order, each at
\* most once, all before the last one successful, none after a failed one; the
\* error field is set exactly when the last step has status error, and
\* final_diff only when no step has status error.
C29_StepsArePrefix == IsPrefixOfOrder /\ StepsWellFormed

\* C29 amended: the same, except that a workflow which identifies no file to
\* change records, after its first two steps, "Generate Git Diffs" with status
\* skipped in place of the last two steps and returns "No changes needed.".
C29_StepsArePrefixOrSkipped == (IsPrefixOfOrder \/ IsSkippedRun) /\ StepsWellFormed

\* the third step failed: three steps recorded, the error set, no final_diff
C29_Witness ==
    /\ gs.pc = "returned"
    /\ Len(gs.steps) = 3
    /\ IsPrefixOfOrder
    /\ gs.steps[3].status = "error"
    /\ gs.error
    /\ gs.final_diff = "unset"

====
